---- MODULE Spec2Model ----
(***************************************************************************)
(* Claim Mutation Tracking Engine (CMTE): the similarity index             *)
(* (MutationSearchEngine, cmte_search.py), the mutation graph              *)
(* (MutationGraph, cmte_graph.py: Cypher queries against Neo4j), the       *)
(* analyzer (cmte_analyzer.py), the embedding generator                    *)
(* (cmte_embeddings.py) and the orchestrator CMTEAgent.process (cmte.py).  *)
(*                                                                         *)
(* Abstractions.  An embedding is a record [dim, pos]: its length and a    *)
(* point on a line, in units of 1/10; the squared L2 distance of two       *)
(* embeddings is (p - q)^2 in units of 1/100 (DistScale).  A similarity    *)
(* 1/(1+d) is kept as the exact fraction [num, den].  A timestamp is an    *)
(* integer: a value that Cypher's datetime() parses (an ISO-8601 string)   *)
(* is a day number >= 1; the literal 'now()' and any other text that is    *)
(* no ISO-8601 date are the values NowCall and BadTimestamp below 1.       *)
(***************************************************************************)
EXTENDS Integers, Sequences, FiniteSets, TLC

VARIABLES
    text_model,  \* EmbeddingGenerator.text_model is loaded (TRUE) or None (FALSE)
    graph_mode,  \* "none": CMTEAgent.graph is None; "down": MutationGraph.driver is None; "up"
    vectors,     \* MutationSearchEngine.index: the vectors of the FAISS store, in order
    claim_ids,   \* MutationSearchEngine.claim_ids
    nodes,       \* Neo4j :Claim nodes: records [id, text, timestamp, platform]
    edges,       \* Neo4j :MUTATES_TO relationships: records [from_id, to_id, similarity]
    ret,         \* the last completed call: its name, arguments and return value
                 \* (and, for an upsert, what its MERGE matched)
    calls,       \* number of calls made so far
    pc,          \* per thread: the statement a concurrent index call is at
    job          \* per thread: the call a thread is executing

vars == <<text_model, graph_mode, vectors, claim_ids, nodes, edges, ret, calls, pc, job>>

-----------------------------------------------------------------------------
(* Bounds of the model *)

MaxTime == 2
MaxEdges == 3
MaxCalls == 3
MaxThreads == 2
MaxFamily == 11
MaxLoaded == 51

Ids == {"A", "B", "C"}
Times == 1..MaxTime
Texts == {"t1", "t2", "t3"}

\* Python's None (a missing claim_data, no patient zero)
None == [none |-> TRUE]

\* claim_data.get('timestamp', 'now()'): the default is the text 'now()'
NowCall == 0
\* a timestamp text that is no ISO-8601 date
BadTimestamp == 0 - 1

Empty == [x \in {} |-> x]

Min(a, b) == IF a <= b THEN a ELSE b
Max(a, b) == IF a >= b THEN a ELSE b

-----------------------------------------------------------------------------
(* Similarity values: exact fractions *)

DistScale == 10 * 10

Frac(n, d) == [num |-> n, den |-> d]
FracLE(a, b) == a.num * b.den <= b.num * a.den
FracGE(a, b) == a.num * b.den >= b.num * a.den

\* settings.cmte_similarity_threshold = 0.85
SimilarityThreshold == Frac(85, 100)

\* similarity = 1 / (1 + float(distance))
Similarity(distance) == Frac(DistScale, DistScale + distance)

-----------------------------------------------------------------------------
(* MutationGraph: the Cypher queries *)

NodeIds(N) == {n.id : n \in N}
NodesWithId(N, id) == {n \in N : n.id = id}
EdgesBetween(E, from_id, to_id) == {e \in E : e.from_id = from_id /\ e.to_id = to_id}

\* datetime($timestamp) succeeds on an ISO-8601 string only
ParsesAsDatetime(ts) == ts >= 1

\* The relationships of a path pattern -[:MUTATES_TO*..]- are undirected.
Incident(E, n) == {e \in E : e.from_id = n \/ e.to_id = n}
OtherEnd(e, n) == IF e.from_id = n THEN e.to_id ELSE e.from_id

\* MATCH path = (c {id: n})-[:MUTATES_TO*minLen..maxLen]-(related): every path
\* that starts at n and uses no relationship twice; the result is the set of
\* <<related, length(path)>>.
RECURSIVE PathEnds(_, _, _, _, _, _)
PathEnds(E, n, used, len, minLen, maxLen) ==
    (IF len >= minLen THEN {<<n, len>>} ELSE {}) \cup
    (IF len = maxLen THEN {}
     ELSE UNION {PathEnds(E, OtherEnd(e, n), used \cup {e}, len + 1, minLen, maxLen) :
                    e \in Incident(E, n) \ used})

FamilyDepth == 5
FamilyLimit == 100
PatientZeroDepth == 10

PathRowsOfAnySeed(N, E, claim_id, depth) ==
    IF NodesWithId(N, claim_id) = {}
    THEN {[id |-> claim_id, text |-> "t1", timestamp |-> 1, distance |-> 0]}
    ELSE UNION {{[id |-> m.id, text |-> m.text, timestamp |-> m.timestamp,
                  distance |-> r[2]] : m \in NodesWithId(N, r[1])} :
                   r \in UNION {PathEnds(E, c.id, {}, 0, 0, depth) :
                                   c \in NodesWithId(N, claim_id)}}

\* The rows of (c:Claim {id})-[:MUTATES_TO*0..depth]-(related:Claim), one per
\* start node, path and property record of the end node.
PathRows(N, E, claim_id, depth) ==
    UNION {{[id |-> m.id, text |-> m.text, timestamp |-> m.timestamp, distance |-> r[2]] :
                m \in NodesWithId(N, r[1])} :
            r \in UNION {PathEnds(E, c.id, {}, 0, 0, depth) : c \in NodesWithId(N, claim_id)}}

FamilyRowsFromOne(N, E, claim_id) ==
    {r \in PathRows(N, E, claim_id, FamilyDepth) : r.distance >= 1}

\* RETURN DISTINCT related.id, related.text, related.timestamp, length(path)
FamilyRows(N, E, claim_id) == PathRows(N, E, claim_id, FamilyDepth)

\* ORDER BY distance, timestamp
FamilyBefore(a, b) ==
    \/ a.distance < b.distance
    \/ a.distance = b.distance /\ a.timestamp < b.timestamp

\* Every order of a set of rows whose keys are equal.
RECURSIVE RowOrders(_)
RowOrders(S) ==
    IF S = {} THEN {<<>>}
    ELSE UNION {{<<m>> \o s : s \in RowOrders(S \ {m})} : m \in S}

SetMin(T) == CHOOSE t \in T : \A u \in T : t <= u
SetMax(T) == CHOOSE t \in T : \A u \in T : t >= u

\* The rows of S whose key lies in the lower half of the keys' range: by
\* distance when the distances differ, else by timestamp.
LowerRows(S) ==
    UNION {IF Cardinality(ds) > 1
           THEN {{x \in S : 2 * x.distance < m} : m \in {SetMin(ds) + SetMax(ds)}}
           ELSE UNION {{{x \in S : 2 * x.timestamp < m} : m \in {SetMin(ts) + SetMax(ts)}} :
                          ts \in {{x.timestamp : x \in S}}} :
              ds \in {{x.distance : x \in S}}}

\* Every order of the rows that ORDER BY allows (rows with equal keys come in
\* any order): the rows of the lower keys, in order, then the others.
RECURSIVE OrderedSeqs(_)
OrderedSeqs(S) ==
    IF \A p \in S, q \in S : ~FamilyBefore(p, q) THEN RowOrders(S)
    ELSE UNION {{l \o r : l \in OrderedSeqs(before), r \in OrderedSeqs(S \ before)} :
                    before \in LowerRows(S)}

Prefix(s, n) == SubSeq(s, 1, Min(Len(s), n))

\* find_mutation_family: the lists the query can return (LIMIT 100).  The
\* max_depth parameter is not used by the query.
FindMutationFamily(mode, N, E, claim_id, max_depth) ==
    IF mode # "up" THEN {<<>>}
    ELSE {Prefix(s, FamilyLimit) : s \in OrderedSeqs(FamilyRows(N, E, claim_id))}

\* RETURN related.id, related.text, related.timestamp, related.source_url
PatientZeroRows(N, E, claim_id) ==
    {[id |-> r.id, text |-> r.text, timestamp |-> r.timestamp] :
        r \in PathRows(N, E, claim_id, PatientZeroDepth)}

LatestRows(rows) == {r \in rows : \A q \in rows : r.timestamp >= q.timestamp}

\* ORDER BY timestamp ASC LIMIT 1: any row of least timestamp
EarliestRows(rows) == {r \in rows : \A q \in rows : r.timestamp <= q.timestamp}

\* find_patient_zero: result.single() is None when there is no row.
FindPatientZero(mode, N, E, claim_id) ==
    IF mode # "up" THEN {None}
    ELSE LET rows == PatientZeroRows(N, E, claim_id)
         IN  IF rows = {} THEN {None} ELSE EarliestRows(rows)

NodeOf(claim_id, data) ==
    [id |-> claim_id, text |-> data.text, timestamp |-> data.timestamp,
     platform |-> data.platform]

\* add_claim returns True when the query ran: the query fails as a whole when
\* datetime() cannot parse the timestamp.
GraphAddClaimOk(mode, data) == mode = "up" /\ ParsesAsDatetime(data.timestamp)

CreateClaim(N, claim_id, data) == N \cup {NodeOf(claim_id, data)}

\* MERGE (c:Claim {id: $id}) SET c.text = ..., c.timestamp = datetime($timestamp), ...
MergeClaim(N, claim_id, data) ==
    {n \in N : n.id # claim_id} \cup {NodeOf(claim_id, data)}

GraphAddClaim(mode, N, claim_id, data) ==
    IF GraphAddClaimOk(mode, data) THEN MergeClaim(N, claim_id, data) ELSE N

\* add_mutation_edge returns True whenever the query ran (with an endpoint
\* missing the MATCH yields no row and the query does nothing).
GraphAddMutationEdgeOk(mode, N, from_id, to_id) == mode = "up"

EdgeOf(from_id, to_id, similarity) ==
    [from_id |-> from_id, to_id |-> to_id, similarity |-> similarity]

CreateEdgeUnmatched(N, E, from_id, to_id, similarity) ==
    E \cup {EdgeOf(from_id, to_id, similarity)}

KeepFirstEdge(N, E, from_id, to_id, similarity) ==
    IF from_id \in NodeIds(N) /\ to_id \in NodeIds(N) /\ EdgesBetween(E, from_id, to_id) = {}
    THEN E \cup {EdgeOf(from_id, to_id, similarity)}
    ELSE E

\* the relationship merged from c2 to c1
MergeEdgeReversed(N, E, from_id, to_id, similarity) ==
    IF from_id \in NodeIds(N) /\ to_id \in NodeIds(N)
    THEN (E \ EdgesBetween(E, to_id, from_id)) \cup {EdgeOf(to_id, from_id, similarity)}
    ELSE E

\* MATCH (c1:Claim {id: $from_id}) MATCH (c2:Claim {id: $to_id})
\* MERGE (c1)-[r:MUTATES_TO]->(c2) SET r.similarity = $similarity
MergeEdge(N, E, from_id, to_id, similarity) ==
    IF from_id \in NodeIds(N) /\ to_id \in NodeIds(N)
    THEN (E \ EdgesBetween(E, from_id, to_id)) \cup {EdgeOf(from_id, to_id, similarity)}
    ELSE E

GraphAddMutationEdge(mode, N, E, from_id, to_id, similarity) ==
    IF mode = "up" THEN MergeEdge(N, E, from_id, to_id, similarity) ELSE E

-----------------------------------------------------------------------------
(* EmbeddingGenerator *)

\* all-MiniLM-L6-v2 encodes a text to 384 floats
ModelDimension == 384

\* The point the model maps a text to: t1 and t2 are paraphrases (squared
\* distance 9/100, similarity 100/109), t3 is unrelated to both.
TextPos(text) == CASE text = "t1" -> 0 [] text = "t2" -> 3 [] OTHER -> 10

\* The point the SHA-256 digest of a text yields.
HashPos(text) == CASE text = "t1" -> 6 [] text = "t2" -> 1 [] OTHER -> 8

DigestBytes == 32
DigestRepeat == 12
Float32Bytes == 4
SimpleEmbeddingSlice == 384

\* _simple_embedding: np.frombuffer(hash_bytes * 12, dtype=np.float32)[:384]
SimpleEmbedding(text) ==
    [dim |-> Min((DigestBytes * DigestRepeat) \div Float32Bytes, SimpleEmbeddingSlice),
     pos |-> HashPos(text)]

\* generate_text_embedding: the model's encoding, or the fallback when
\* text_model is None
GenerateTextEmbedding(loaded, text) ==
    IF loaded THEN [dim |-> ModelDimension, pos |-> TextPos(text)]
    ELSE SimpleEmbedding(text)

-----------------------------------------------------------------------------
(* MutationSearchEngine *)

Dimension == 384
SearchK == 20

\* IndexFlatL2 reports squared L2 distances
L2Distance(u, v) == (u.pos - v.pos) * (u.pos - v.pos)

\* index.search(query, k): the positions of the k nearest vectors, nearest
\* first (vectors at equal distance come in any order).
RECURSIVE Nearest(_, _, _, _)
Nearest(V, q, left, k) ==
    IF k = 0 \/ left = {} THEN {<<>>}
    ELSE UNION {{<<i>> \o s : s \in Nearest(V, q, left \ {i}, k - 1)} :
                    i \in {x \in left : \A y \in left :
                              L2Distance(V[x], q) <= L2Distance(V[y], q)}}

MatchesUnfiltered(V, ids, q, hits, threshold) ==
    [n \in 1..Len(hits) |-> [claim_id |-> ids[hits[n]],
                             similarity |-> Similarity(L2Distance(V[hits[n]], q))]]

\* the loop over zip(indices[0], distances[0]): idx < len(self.claim_ids) and
\* similarity >= threshold
RECURSIVE Matches(_, _, _, _, _)
Matches(V, ids, q, hits, threshold) ==
    IF hits = <<>> THEN <<>>
    ELSE LET i == Head(hits)
             similarity == Similarity(L2Distance(V[i], q))
         IN  (IF i <= Len(ids) /\ FracGE(similarity, threshold)
              THEN <<[claim_id |-> ids[i], similarity |-> similarity]>>
              ELSE <<>>) \o Matches(V, ids, q, Tail(hits), threshold)

\* search_similar: the result lists the call can return.  A query whose length
\* is not the index's makes index.search raise; the handler returns [].
SearchSimilar(V, ids, q, k, threshold) ==
    IF Len(ids) = 0 \/ q.dim # Dimension THEN {<<>>}
    ELSE {Matches(V, ids, q, hits, threshold) :
            hits \in Nearest(V, q, 1..Len(V), Min(k, Len(ids)))}

IndexAcceptsAny(embedding) == embedding.dim > 0

\* add_claim: a vector of another length is dropped
IndexAccepts(embedding) == embedding.dim = Dimension

-----------------------------------------------------------------------------
(* MutationAnalyzer *)

(* The timestamp of a family member, as the analyzer sees it: a day number
   >= 1 is a datetime object (what the graph returns for a stored claim), a
   number <= -2 is the ISO-8601 string of day -(n + 1), BadTimestamp and
   NowCall are strings that are no ISO-8601 date, and a member may have no
   timestamp at all.  datetime.now() is later than every day of the model. *)
IsoString(day) == 0 - (day + 1)
HasTimestamp(m) == "timestamp" \in DOMAIN m
IsDatetime(m) == HasTimestamp(m) /\ m.timestamp >= 1
IsString(m) == HasTimestamp(m) /\ m.timestamp <= 0
ParsesAsIso(m) == HasTimestamp(m) /\ m.timestamp <= 0 - 2
DayOf(m) == IF m.timestamp >= 1 THEN m.timestamp ELSE 0 - (m.timestamp + 1)
NowDay == Max(MaxTime, MaxFamily) + 1

\* key=lambda x: x.get('timestamp', datetime.now()): datetimes by day, a
\* missing one last; strings in lexical order, ISO dates before other text
SortKey(m) ==
    IF ~HasTimestamp(m) THEN NowDay
    ELSE IF IsDatetime(m) \/ ParsesAsIso(m) THEN DayOf(m)
    ELSE NowDay + 1

\* sorted() raises TypeError when it compares a str key with a datetime key
SortRaises(mutations) ==
    /\ \E i \in 1..Len(mutations) : IsString(mutations[i])
    /\ \E i \in 1..Len(mutations) : ~IsString(mutations[i])

\* sorted(mutations, key = timestamp), a stable sort: the key of every
\* member, then the position of every member, which counts the members
\* before it in key order (\o <<>> has TLC keep the sequence as a tuple)
SortKeys(s) == [i \in 1..Len(s) |-> SortKey(s[i])] \o <<>>

SortRank(keys, i) ==
    1 + Cardinality({j \in 1..Len(keys) :
                        \/ keys[j] < keys[i]
                        \/ keys[j] = keys[i] /\ j < i})

SortRanks(keys) == [i \in 1..Len(keys) |-> SortRank(keys, i)] \o <<>>

SortedByRank(s, ranks) ==
    [k \in 1..Len(s) |-> s[CHOOSE i \in 1..Len(s) : ranks[i] = k]]

SortedByTimestamp(s) == SortedByRank(s, SortRanks(SortKeys(s)))

\* round(n / d, digits), as an integer number of 10^-digits: Python rounds
\* a value that lies halfway to the even neighbour (the halfway values of the
\* model's families are multiples of 1/8, which a float holds exactly)
RoundDiv(n, d) ==
    IF 2 * (n % d) > d \/ (2 * (n % d) = d /\ (n \div d) % 2 = 1)
    THEN (n \div d) + 1
    ELSE n \div d

\* first_time / last_time: a missing timestamp is None and the subtraction
\* raises TypeError; a string that is no ISO date makes fromisoformat raise
TimeSpanRaises(first, last) ==
    \E m \in {first, last} : ~(IsDatetime(m) \/ ParsesAsIso(m))

\* first_time = sorted_mutations[0], last_time = sorted_mutations[-1]
FirstOf(sorted) == sorted[1]
LastOf(sorted) == sorted[Len(sorted)]
EndsRaise(sorted) == TimeSpanRaises(FirstOf(sorted), LastOf(sorted))

\* the try block of analyze_family raises
AnalysisRaises(mutations) ==
    \/ (Len(mutations) > 1 /\ SortRaises(mutations))
    \/ /\ Len(mutations) > 1
       /\ ~SortRaises(mutations)
       /\ EndsRaise(SortedByTimestamp(mutations))

\* the days counted with both ends included
DaysInclusive(sorted) == DayOf(LastOf(sorted)) - DayOf(FirstOf(sorted)) + 1

\* (last_time - first_time).days of the sorted family
DaysBetween(sorted) == DayOf(LastOf(sorted)) - DayOf(FirstOf(sorted))
\* dict.get(key, default)
Get(d, key, default) == IF key \in DOMAIN d THEN d[key] ELSE default

TimeSpanOf(sorted) == IF Len(sorted) > 1 THEN DaysBetween(sorted) ELSE 0
TimeSpanDays(mutations) == TimeSpanOf(SortedByTimestamp(mutations))

\* _classify_mutations: each consecutive pair is a platform_crossover when the
\* platforms differ and the earlier one is known, else a paraphrase
PlatformOf(m) == Get(m, "platform", "unknown")
IsCrossover(prev, curr) ==
    PlatformOf(prev) # PlatformOf(curr) /\ PlatformOf(prev) # "unknown"
Crossovers(mutations) ==
    {i \in 2..Len(mutations) : IsCrossover(mutations[i - 1], mutations[i])}
ClassifyMutations(mutations) ==
    [paraphrase |-> Cardinality((2..Len(mutations)) \ Crossovers(mutations)),
     translation |-> 0,
     platform_crossover |-> Cardinality(Crossovers(mutations)),
     other |-> 0]

UnclampedScore(mutations) ==
    IF mutations = <<>> \/ AnalysisRaises(mutations)
    THEN [family_size |-> Len(mutations), time_span_days |-> 0, spread_rate |-> 0,
          viral_score |-> 0, mutation_types |-> Empty]
    ELSE CHOOSE analysis \in
            {[family_size |-> Len(mutations),
              time_span_days |-> time_span,
              spread_rate |-> RoundDiv(100 * Len(mutations), Max(time_span, 1)),
              viral_score |-> RoundDiv(100 * Len(mutations), Max(time_span, 1))
                                 + 20 * Len(mutations),
              mutation_types |-> ClassifyMutations(SortedByTimestamp(mutations))] :
                time_span \in {TimeSpanDays(mutations)}} : TRUE

\* analyze_family: spread_rate in hundredths, viral_score in tenths
\* the record of one sorted family
Statistics(sorted, time_span) ==
    [family_size |-> Len(sorted),
     time_span_days |-> time_span,
     spread_rate |-> RoundDiv(100 * Len(sorted), Max(time_span, 1)),
     viral_score |-> Min(1000, RoundDiv(100 * Len(sorted), Max(time_span, 1))
                                 + 20 * Len(sorted)),
     mutation_types |-> ClassifyMutations(sorted)]

AnalyzeFamily(mutations) ==
    IF mutations = <<>>
    THEN [family_size |-> 0, time_span_days |-> 0, spread_rate |-> 0, viral_score |-> 0,
          mutation_types |-> Empty]
    ELSE IF AnalysisRaises(mutations)
    THEN \* the except branch
         [family_size |-> Len(mutations), time_span_days |-> 0, spread_rate |-> 0,
          viral_score |-> 0, mutation_types |-> Empty]
    ELSE CHOOSE analysis \in
            UNION {{Statistics(sorted, time_span) : time_span \in {TimeSpanOf(sorted)}} :
                      sorted \in {SortedByTimestamp(mutations)}} : TRUE

\* predict_spread (predicted_count and growth_rate of the growth branch depend
\* on the wall clock and are not part of the record there)
PredictSpread(mutations) ==
    IF Len(mutations) < 3
    THEN [prediction |-> "insufficient_data", current_count |-> Len(mutations),
          predicted_count |-> Len(mutations), confidence |-> "low"]
    ELSE IF SortRaises(mutations)
    THEN \* the except branch
         [prediction |-> "error", current_count |-> Len(mutations),
          predicted_count |-> Len(mutations), confidence |-> "low"]
    ELSE [prediction |-> "exponential_growth", current_count |-> Len(mutations),
          confidence |-> IF Len(mutations) > 10 THEN "medium" ELSE "low"]

-----------------------------------------------------------------------------
(* CMTEAgent.process *)

SimilarLimit == 10
FamilyResultLimit == 50

\* the dict process hands to graph.add_claim
GraphClaimData(claim_text, claim_data) ==
    [text |-> claim_text,
     timestamp |-> Get(claim_data, "timestamp", NowCall),
     platform |-> Get(claim_data, "platform", "unknown")]

\* for similar_id, similarity in similar_claims: add_mutation_edge(similar_id, claim_id, similarity)
RECURSIVE AddMutationEdges(_, _, _, _, _)
AddMutationEdges(mode, N, E, similar, claim_id) ==
    IF similar = <<>> THEN E
    ELSE AddMutationEdges(mode, N,
            GraphAddMutationEdge(mode, N, E, Head(similar).claim_id, claim_id,
                                 Head(similar).similarity),
            Tail(similar), claim_id)

ErrorResultNoCause(claim_id) ==
    [claim_id |-> claim_id, similar_claims_count |-> 0,
     similar_claims |-> <<>>, mutation_family |-> <<>>, patient_zero |-> None,
     analysis |-> [family_size |-> 0, viral_score |-> 0],
     spread_prediction |-> Empty, viral_score |-> 0, index_size |-> 0]

\* the record of the except branch
ErrorResult(claim_id) ==
    [error |-> "AttributeError", claim_id |-> claim_id, similar_claims_count |-> 0,
     similar_claims |-> <<>>, mutation_family |-> <<>>, patient_zero |-> None,
     analysis |-> [family_size |-> 0, viral_score |-> 0],
     spread_prediction |-> Empty, viral_score |-> 0, index_size |-> 0]

ResultUntruncated(claim_id, similar, family, zero, size) ==
    CHOOSE result \in
        {[claim_id |-> claim_id, similar_claims_count |-> Len(similar),
          similar_claims |-> similar, mutation_family |-> family, patient_zero |-> zero,
          analysis |-> analysis, spread_prediction |-> PredictSpread(family),
          viral_score |-> analysis.viral_score, index_size |-> size] :
            analysis \in {AnalyzeFamily(family)}} : TRUE

\* the record of the try branch
Result(claim_id, similar, family, zero, size) ==
    CHOOSE result \in
        {[claim_id |-> claim_id, similar_claims_count |-> Len(similar),
          similar_claims |-> Prefix(similar, SimilarLimit),
          mutation_family |-> Prefix(family, FamilyResultLimit),
          patient_zero |-> zero,
          analysis |-> analysis,
          spread_prediction |-> PredictSpread(family),
          viral_score |-> analysis.viral_score,
          index_size |-> size] :
            analysis \in {AnalyzeFamily(family)}} : TRUE

\* The stages of a call that failed inside their own handler, on an agent
\* whose graph is in the given mode.
FailedStagesIn(mode, embedding, claim_text, claim_data) ==
    (IF ~IndexAccepts(embedding) THEN {"index.add_claim"} ELSE {}) \cup
    (IF mode # "none" /\ claim_data # None
        /\ ~GraphAddClaimOk(mode, GraphClaimData(claim_text, claim_data))
     THEN {"graph.add_claim"} ELSE {})

\* The stages of this call that failed inside their own handler.
FailedStages(embedding, claim_text, claim_data) ==
    FailedStagesIn(graph_mode, embedding, claim_text, claim_data)

\* ret for a completed process call: its arguments, the matches its search
\* found, the stages that failed, and the returned record.
ProcessRet(claim_id, claim_text, claim_data, similar, failed, result) ==
    [op |-> "process", claim_id |-> claim_id, claim_text |-> claim_text,
     claim_data |-> claim_data, found |-> similar, failed |-> failed, result |-> result]

\* process on an agent whose embedding model is loaded or not, whose graph is
\* in the given mode and whose index holds the given vectors and ids
ProcessOn(loaded, mode, index, ids, claim_id, claim_text, claim_data) ==
    /\ calls < MaxCalls
    /\ calls' = calls + 1
    /\ \E embedding \in {GenerateTextEmbedding(loaded, claim_text)} :
       \E similar \in SearchSimilar(index, ids, embedding, SearchK,
                                    SimilarityThreshold) :
       \E failed \in {FailedStagesIn(mode, embedding, claim_text, claim_data)} :
          /\ vectors' = IF IndexAccepts(embedding) THEN Append(index, embedding)
                        ELSE index
          /\ claim_ids' = IF IndexAccepts(embedding) THEN Append(ids, claim_id)
                          ELSE ids
          /\ IF mode = "none"
             THEN /\ UNCHANGED <<nodes, edges>>
                  /\ ret' = ProcessRet(claim_id, claim_text, claim_data, similar, failed,
                                Result(claim_id, similar, <<>>, None, Len(claim_ids')))
             ELSE IF claim_data = None
             THEN \* claim_data.get raises: the except branch
                  /\ UNCHANGED <<nodes, edges>>
                  /\ ret' = ProcessRet(claim_id, claim_text, claim_data, similar,
                                failed \cup {"claim_data.get"}, ErrorResult(claim_id))
             ELSE \E N \in {GraphAddClaim(mode, nodes, claim_id,
                                          GraphClaimData(claim_text, claim_data))} :
                  \E E \in {AddMutationEdges(mode, N, edges, similar, claim_id)} :
                  \E family \in FindMutationFamily(mode, N, E, claim_id, FamilyDepth),
                     zero \in FindPatientZero(mode, N, E, claim_id) :
                      /\ nodes' = N
                      /\ edges' = E
                      /\ ret' = ProcessRet(claim_id, claim_text, claim_data, similar, failed,
                                    Result(claim_id, similar, family, zero, Len(claim_ids')))

process(claim_id, claim_text, claim_data) ==
    /\ ProcessOn(text_model, graph_mode, vectors, claim_ids,
                 claim_id, claim_text, claim_data)
    /\ UNCHANGED <<text_model, graph_mode, pc, job>>

InitCommon ==
    /\ vectors = <<>>
    /\ claim_ids = <<>>
    /\ nodes = {}
    /\ edges = {}
    /\ ret = [op |-> "init"]
    /\ calls = 0
    /\ pc = Empty
    /\ job = Empty

AgentIds == {"A", "B"}

\* claim_data of the process calls: None, a dict without a timestamp, dicts
\* with a timestamp
ClaimDataArgs == {None, [platform |-> "web"], [timestamp |-> 1], [timestamp |-> 2]}

Init ==
    /\ InitCommon
    /\ text_model \in BOOLEAN
    /\ graph_mode \in {"none", "down", "up"}

Next ==
    \E claim_id \in AgentIds, claim_text \in Texts, claim_data \in ClaimDataArgs :
        process(claim_id, claim_text, claim_data)

Spec == Init /\ [][Next]_vars

-----------------------------------------------------------------------------
(* The graph specification: calls on one MutationGraph *)

TimestampInputs == Times \cup {BadTimestamp}
SimilarityInputs == {Frac(9, 10), Frac(1, 1)}

\* Attribute records of the direct add_claim calls: two calls with different
\* timestamps differ in their text as well.
ClaimDataInputs ==
    {[text |-> IF ts = 1 THEN "t1" ELSE "t2", timestamp |-> ts, platform |-> "web"] :
        ts \in TimestampInputs}

\* Endpoint pairs of the direct add_mutation_edge calls: the cycle A->B->C->A
\* and a self-loop.
EdgeInputs == {<<"A", "B">>, <<"B", "C">>, <<"C", "A">>, <<"A", "A">>}

InitGraph ==
    /\ InitCommon
    /\ text_model = TRUE
    /\ graph_mode \in {"down", "up"}

add_claim(claim_id, data) ==
    /\ nodes' = GraphAddClaim(graph_mode, nodes, claim_id, data)
    /\ ret' = [op |-> "add_claim", claim_id |-> claim_id, data |-> data,
               result |-> GraphAddClaimOk(graph_mode, data),
               matched |-> NodesWithId(nodes, claim_id)]
    /\ UNCHANGED <<text_model, graph_mode, vectors, claim_ids, edges, calls, pc, job>>

add_mutation_edge(from_id, to_id, similarity) ==
    /\ edges' = GraphAddMutationEdge(graph_mode, nodes, edges, from_id, to_id, similarity)
    /\ Cardinality(edges') <= MaxEdges
    /\ ret' = [op |-> "add_mutation_edge", from_id |-> from_id, to_id |-> to_id,
               similarity |-> similarity,
               result |-> GraphAddMutationEdgeOk(graph_mode, nodes, from_id, to_id),
               matched |-> EdgesBetween(edges, from_id, to_id),
               changed |-> edges' # edges]
    /\ UNCHANGED <<text_model, graph_mode, vectors, claim_ids, nodes, calls, pc, job>>

find_mutation_family(claim_id) ==
    /\ \E family \in FindMutationFamily(graph_mode, nodes, edges, claim_id, FamilyDepth) :
          ret' = [op |-> "find_mutation_family", claim_id |-> claim_id,
                  result |-> family]
    /\ UNCHANGED <<text_model, graph_mode, vectors, claim_ids, nodes, edges, calls, pc, job>>

find_patient_zero(claim_id) ==
    /\ \E zero \in FindPatientZero(graph_mode, nodes, edges, claim_id) :
          ret' = [op |-> "find_patient_zero", claim_id |-> claim_id, result |-> zero]
    /\ UNCHANGED <<text_model, graph_mode, vectors, claim_ids, nodes, edges, calls, pc, job>>

NextGraph ==
    \/ \E claim_id \in Ids, data \in ClaimDataInputs : add_claim(claim_id, data)
    \/ \E e \in EdgeInputs, similarity \in SimilarityInputs :
          add_mutation_edge(e[1], e[2], similarity)
    \/ \E claim_id \in Ids : find_mutation_family(claim_id)
    \/ \E claim_id \in Ids : find_patient_zero(claim_id)

SpecGraph == InitGraph /\ [][NextGraph]_vars

-----------------------------------------------------------------------------
(* Calls on the agent and directly on its graph, in any order *)

InitMixed ==
    /\ InitCommon
    /\ text_model = TRUE
    /\ graph_mode = "up"

\* Direct add_mutation_edge calls among A and B and to a claim C that is never added.
MixedEdgeInputs == {<<"A", "B">>, <<"B", "A">>, <<"A", "A">>, <<"A", "C">>, <<"C", "B">>}

MixedClaimData ==
    {[text |-> "t1", timestamp |-> 1, platform |-> "web"],
     [text |-> "t2", timestamp |-> BadTimestamp, platform |-> "web"]}

NextMixed ==
    \/ \E claim_id \in AgentIds, claim_data \in {[platform |-> "web"], [timestamp |-> 2]} :
          process(claim_id, "t1", claim_data)
    \/ \E claim_id \in AgentIds, data \in MixedClaimData :
          add_claim(claim_id, data)
    \/ \E e \in MixedEdgeInputs :
          add_mutation_edge(e[1], e[2], Frac(9, 10))

SpecMixed == InitMixed /\ [][NextMixed]_vars

-----------------------------------------------------------------------------
(* Concurrent calls on one MutationSearchEngine: each thread runs one call at
   a time, statement by statement; the class holds no lock. *)

Threads == 1..MaxThreads

\* The (id, vector) pairs the threads insert: every id comes with its own vector.
IndexInputs ==
    {<<"A", GenerateTextEmbedding(TRUE, "t1")>>, <<"B", GenerateTextEmbedding(TRUE, "t3")>>,
     <<"C", SimpleEmbedding("t1")>>}

QueryInputs == {GenerateTextEmbedding(TRUE, "t1"), GenerateTextEmbedding(TRUE, "t2")}

InitIndex ==
    /\ vectors = <<>>
    /\ claim_ids = <<>>
    /\ nodes = {}
    /\ edges = {}
    /\ ret = [op |-> "init"]
    /\ calls = 0
    /\ text_model = TRUE
    /\ graph_mode = "none"
    /\ pc = [t \in Threads |-> "idle"]
    /\ job = [t \in Threads |-> None]

\* add_claim is called; a vector of another length returns at once
index_add_claim(t, claim_id, embedding) ==
    /\ pc[t] = "idle" /\ calls < MaxCalls
    /\ calls' = calls + 1
    /\ IF IndexAccepts(embedding)
       THEN /\ pc' = [pc EXCEPT ![t] = "index.add"]
            /\ job' = [job EXCEPT ![t] = [op |-> "add_claim", claim_id |-> claim_id,
                                          embedding |-> embedding]]
            /\ UNCHANGED ret
       ELSE /\ ret' = [op |-> "index.add_claim", claim_id |-> claim_id, thread |-> t,
                       accepted |-> FALSE]
            /\ UNCHANGED <<pc, job>>
    /\ UNCHANGED <<text_model, graph_mode, vectors, claim_ids, nodes, edges>>

\* self.index.add(embedding.reshape(1, -1).astype('float32'))
index_add(t) ==
    /\ pc[t] = "index.add"
    /\ vectors' = Append(vectors, job[t].embedding)
    /\ pc' = [pc EXCEPT ![t] = "claim_ids.append"]
    /\ UNCHANGED <<text_model, graph_mode, claim_ids, nodes, edges, ret, calls, job>>

\* self.claim_ids.append(claim_id)
claim_ids_append(t) ==
    /\ pc[t] = "claim_ids.append"
    /\ claim_ids' = Append(claim_ids, job[t].claim_id)
    /\ pc' = [pc EXCEPT ![t] = "idle"]
    /\ job' = [job EXCEPT ![t] = None]
    /\ ret' = [op |-> "index.add_claim", claim_id |-> job[t].claim_id, thread |-> t,
               accepted |-> TRUE]
    /\ UNCHANGED <<text_model, graph_mode, vectors, nodes, edges, calls>>

\* search_similar is called: if len(self.claim_ids) == 0: return []
search_similar(t, query) ==
    /\ pc[t] = "idle" /\ calls < MaxCalls
    /\ calls' = calls + 1
    /\ IF Len(claim_ids) = 0 \/ query.dim # Dimension
       THEN /\ ret' = [op |-> "search_similar", thread |-> t, query |-> query,
                       result |-> <<>>]
            /\ UNCHANGED <<pc, job>>
       ELSE /\ pc' = [pc EXCEPT ![t] = "index.search"]
            /\ job' = [job EXCEPT ![t] = [op |-> "search_similar", query |-> query]]
            /\ UNCHANGED ret
    /\ UNCHANGED <<text_model, graph_mode, vectors, claim_ids, nodes, edges>>

\* k_actual = min(k, len(self.claim_ids)); distances, indices = self.index.search(query, k_actual)
index_search(t) ==
    /\ pc[t] = "index.search"
    /\ \E hits \in Nearest(vectors, job[t].query, 1..Len(vectors),
                          Min(SearchK, Len(claim_ids))) :
          job' = [job EXCEPT ![t] = [op |-> "search_similar", query |-> job[t].query,
                                     hits |-> hits, ntotal |-> Len(vectors),
                                     ids_len |-> Len(claim_ids)]]
    /\ pc' = [pc EXCEPT ![t] = "results"]
    /\ UNCHANGED <<text_model, graph_mode, vectors, claim_ids, nodes, edges, ret, calls>>

\* the loop that builds results, and the return
search_results(t) ==
    /\ pc[t] = "results"
    /\ ret' = [op |-> "search_similar", thread |-> t, query |-> job[t].query,
               result |-> Matches(vectors, claim_ids, job[t].query, job[t].hits,
                                  SimilarityThreshold)]
    /\ pc' = [pc EXCEPT ![t] = "idle"]
    /\ job' = [job EXCEPT ![t] = None]
    /\ UNCHANGED <<text_model, graph_mode, vectors, claim_ids, nodes, edges, calls>>

NextIndex ==
    \/ \E t \in Threads, input \in IndexInputs : index_add_claim(t, input[1], input[2])
    \/ \E t \in Threads : index_add(t)
    \/ \E t \in Threads : claim_ids_append(t)
    \/ \E t \in Threads, query \in QueryInputs : search_similar(t, query)
    \/ \E t \in Threads : index_search(t)
    \/ \E t \in Threads : search_results(t)

SpecIndex == InitIndex /\ [][NextIndex]_vars

-----------------------------------------------------------------------------
(* Properties of the agent, checked under Spec *)

HasError(result) == "error" \in DOMAIN result

WithinThreshold(text_a, text_b) ==
    FracGE(Similarity(L2Distance(GenerateTextEmbedding(text_model, text_a),
                                 GenerateTextEmbedding(text_model, text_b))),
           SimilarityThreshold)

\* The first call of the scenario has returned: process(C1) on the fresh agent,
\* with a timestamp in its metadata.
FirstProcessed ==
    /\ graph_mode = "up" /\ calls = 1 /\ ret.op = "process"
    /\ ret.claim_data # None /\ "timestamp" \in DOMAIN ret.claim_data

FirstAsClaimed ==
    /\ ret.result.similar_claims_count = 0
    /\ Len(ret.result.mutation_family) = 1
    /\ ret.result.mutation_family[1].id = ret.claim_id
    /\ ret.result.patient_zero # None
    /\ ret.result.patient_zero.id = ret.claim_id

\* The second call has returned: process(C2) after process(C1), C2's embedding
\* within the threshold of C1's and C2's timestamp later than C1's.
SecondProcessed(first) ==
    /\ graph_mode = "up" /\ calls = 2 /\ ret.op = "process"
    /\ first.id # ret.claim_id
    /\ ret.claim_data # None /\ "timestamp" \in DOMAIN ret.claim_data
    /\ ret.claim_data.timestamp > first.timestamp
    /\ WithinThreshold(first.text, ret.claim_text)

SecondAsClaimed(first) ==
    /\ ret.result.similar_claims_count = 1
    /\ Len(ret.result.mutation_family) = 2
    /\ ret.result.patient_zero # None
    /\ ret.result.patient_zero.id = first.id

\* C1: on a fresh agent with the graph backend available, process(C1) returns
\* similar_claims_count 0, family [C1] and patient zero C1; a following
\* process(C2), C2's embedding within the threshold of C1's and C2 stamped
\* later, returns similar_claims_count 1, a family of 2 and patient zero C1.
C1_EndToEndScenario ==
    /\ FirstProcessed => FirstAsClaimed
    /\ \A first \in nodes : SecondProcessed(first) => SecondAsClaimed(first)

\* The scenario with the embedding model loaded: there the results are as claimed.
C1_ScenarioWithModel == text_model => C1_EndToEndScenario

C1_ScenarioWithModelWitness ==
    /\ text_model
    /\ \E first \in nodes : SecondProcessed(first) /\ first.text # ret.claim_text

Zeroed(result) ==
    /\ result.similar_claims_count = 0
    /\ result.similar_claims = <<>>
    /\ result.mutation_family = <<>>
    /\ result.patient_zero = None
    /\ result.viral_score = 0
    /\ result.analysis.viral_score = 0

C2_DegradedWitness ==
    /\ ret.op = "process" /\ ~HasError(ret.result)
    /\ "graph.add_claim" \in ret.failed /\ graph_mode = "up"

SameRows(s, t) == {s[i] : i \in 1..Len(s)} = {t[i] : i \in 1..Len(t)}

\* C10: processing a claim again, with the same id, text and metadata as the
\* call before, leaves one node for the id, adds no edge (none from the claim to
\* itself) and returns the same family and patient zero.
C10_ReprocessSafe ==
    [][(/\ ret.op = "process" /\ ret'.op = "process" /\ calls' = calls + 1
        /\ graph_mode = "up" /\ ~HasError(ret.result)
        /\ ret'.claim_id = ret.claim_id /\ ret'.claim_text = ret.claim_text
        /\ ret'.claim_data = ret.claim_data)
       => /\ Cardinality(NodesWithId(nodes', ret.claim_id)) <= 1
          /\ edges' = edges
          /\ EdgesBetween(edges', ret.claim_id, ret.claim_id) = {}
          /\ SameRows(ret'.result.mutation_family, ret.result.mutation_family)
          /\ FindPatientZero(graph_mode, nodes', edges', ret.claim_id)
                = FindPatientZero(graph_mode, nodes, edges, ret.claim_id)]_vars

-----------------------------------------------------------------------------
(* Properties checked under SpecMixed *)

\* C8: both endpoints of every MUTATES_TO edge are claims present in the graph.
C8_EdgeEndpointsPresent ==
    \A e \in edges : e.from_id \in NodeIds(nodes) /\ e.to_id \in NodeIds(nodes)

\* process has found a relative for a claim whose node could not be added (its
\* metadata has no timestamp), so the edge relative -> claim had no endpoint,
\* while the graph holds other edges
C8_Witness ==
    /\ ret.op = "process" /\ ret.found # <<>>
    /\ ret.claim_id \notin NodeIds(nodes)
    /\ edges # {}

-----------------------------------------------------------------------------
(* Properties of the graph, checked under SpecGraph *)

\* The claims within k hops of the claims S, edges taken in either direction.
RECURSIVE WithinHops(_, _, _)
WithinHops(E, S, k) ==
    IF k = 0 THEN S
    ELSE WithinHops(E, S \cup {e.to_id : e \in {x \in E : x.from_id \in S}}
                         \cup {e.from_id : e \in {x \in E : x.to_id \in S}}, k - 1)

SeqIds(s) == {s[i].id : i \in 1..Len(s)}

CycleABC ==
    /\ graph_mode = "up"
    /\ {<<e.from_id, e.to_id>> : e \in edges} = {<<"A", "B">>, <<"B", "C">>, <<"C", "A">>}

\* C3: on a graph holding the cycle A->B->C->A, find_mutation_family(A) lists
\* exactly the claims A, B and C, each of them exactly once.
C3_CycleFamilyEachOnce ==
    (CycleABC /\ ret.op = "find_mutation_family" /\ ret.claim_id = "A")
        => /\ SeqIds(ret.result) = {"A", "B", "C"}
           /\ \A i, j \in 1..Len(ret.result) :
                 ret.result[i].id = ret.result[j].id => i = j

\* C4: find_patient_zero(seed), for a seed in the graph, returns a claim within
\* 10 hops of the seed whose timestamp is the least of all claims within 10
\* hops, hence at most that of every member of find_mutation_family(seed).
C4_PatientZeroIsEarliest ==
    (ret.op = "find_patient_zero" /\ ret.claim_id \in NodeIds(nodes))
        => LET reach == WithinHops(edges, {ret.claim_id}, PatientZeroDepth)
           IN  /\ ret.result # None
               /\ ret.result.id \in reach
               /\ \E n \in nodes : n.id = ret.result.id /\ n.timestamp = ret.result.timestamp
               /\ \A n \in nodes : n.id \in reach => ret.result.timestamp <= n.timestamp
               /\ \A family \in FindMutationFamily(graph_mode, nodes, edges,
                                                   ret.claim_id, FamilyDepth) :
                     \A i \in 1..Len(family) : ret.result.timestamp <= family[i].timestamp

\* C4's example: A, B and C linked A-B-C, B stamped before A and C, and
\* find_patient_zero(A) has returned B.
C4_Witness ==
    /\ ret.op = "find_patient_zero" /\ ret.claim_id = "A"
    /\ \E a, b, c \in nodes :
          /\ a.id = "A" /\ b.id = "B" /\ c.id = "C"
          /\ b.timestamp < a.timestamp /\ b.timestamp < c.timestamp
    /\ {<<e.from_id, e.to_id>> : e \in edges} = {<<"A", "B">>, <<"B", "C">>}
    /\ ret.result # None /\ ret.result.id = "B"

\* C5: for every seed that is a claim in the graph, find_mutation_family(seed)
\* contains an entry for the seed itself with distance 0.
C5_FamilyReflexive ==
    (ret.op = "find_mutation_family" /\ ret.claim_id \in NodeIds(nodes))
        => \E i \in 1..Len(ret.result) :
              ret.result[i].id = ret.claim_id /\ ret.result[i].distance = 0

\* a family of a seed that has relatives, and a self-loop, has been returned
C5_Witness ==
    /\ ret.op = "find_mutation_family" /\ ret.claim_id = "A"
    /\ Len(ret.result) >= 3
    /\ \E e \in edges : e.from_id = "A" /\ e.to_id = "A"

\* C6: add_claim on an id that is in the graph already leaves exactly one node
\* with that id, holding the attributes of this call; add_mutation_edge on an
\* ordered pair that has an edge already leaves exactly one edge for the pair,
\* holding the similarity of this call.
C6_IdempotentUpsert ==
    /\ (ret.op = "add_claim" /\ ret.result /\ ret.matched # {})
          => NodesWithId(nodes, ret.claim_id) = {NodeOf(ret.claim_id, ret.data)}
    /\ (ret.op = "add_mutation_edge" /\ ret.result /\ ret.matched # {})
          => EdgesBetween(edges, ret.from_id, ret.to_id)
                = {EdgeOf(ret.from_id, ret.to_id, ret.similarity)}

\* a second add_mutation_edge on a pair, with another similarity, has returned
C6_Witness ==
    /\ ret.op = "add_mutation_edge" /\ ret.result
    /\ \E e \in ret.matched : e.similarity # ret.similarity

\* a second add_claim on an id, with other attributes, has returned
C6_WitnessClaim ==
    /\ ret.op = "add_claim" /\ ret.result
    /\ \E n \in ret.matched : n.timestamp # ret.data.timestamp /\ n.text # ret.data.text

\* C7: add_mutation_edge with from_id or to_id not a claim in the graph reports
\* failure to the caller and leaves the graph unchanged.
C7_MissingNodeReported ==
    (/\ ret.op = "add_mutation_edge"
     /\ (ret.from_id \notin NodeIds(nodes) \/ ret.to_id \notin NodeIds(nodes)))
        => ret.result = FALSE /\ ~ret.changed

\* What the code does there: the graph is left unchanged, whatever is reported.
C7_MissingNodeNoEffect ==
    (/\ ret.op = "add_mutation_edge"
     /\ (ret.from_id \notin NodeIds(nodes) \/ ret.to_id \notin NodeIds(nodes)))
        => ~ret.changed

-----------------------------------------------------------------------------
(* Properties checked under SpecIndex *)

Inserting(t) == pc[t] \in {"index.add", "claim_ids.append"}

\* C9: insert is atomic with respect to inserts and searches: no search
\* observes the vector store and the id list with different lengths, and once
\* all inserts have completed the id at each position is the id that was
\* inserted with the vector at that position.
C9_InsertAtomic ==
    /\ \A t \in Threads : pc[t] = "results" => job[t].ntotal = job[t].ids_len
    /\ (\A t \in Threads : ~Inserting(t))
          => /\ Len(vectors) = Len(claim_ids)
             /\ \A i \in 1..Len(claim_ids) : <<claim_ids[i], vectors[i]>> \in IndexInputs

\* What holds without a lock: once all inserts have completed the two lists
\* have the same length.
C9_SameLengthWhenQuiet ==
    (\A t \in Threads : ~Inserting(t)) => Len(vectors) = Len(claim_ids)

-----------------------------------------------------------------------------
(* The fallback embedding, checked under Spec *)

\* C11: with the embedding model unavailable, generate_text_embedding returns
\* a vector of the index's dimension (384), so that add_claim accepts it: a
\* process call that has returned has put its claim in the index.
C11_FallbackHasIndexDimension ==
    (ret.op = "process" /\ ~text_model)
        => \E e \in {GenerateTextEmbedding(text_model, ret.claim_text)} :
              /\ e.dim = Dimension
              /\ IndexAccepts(e)
              /\ Len(claim_ids) > 0 /\ claim_ids[Len(claim_ids)] = ret.claim_id

\* What holds of the fallback: it returns the same vector for the same text,
\* of 96 floats (32 * 12 bytes read as 4-byte floats), and the index, which
\* rejects it, stays empty.
C11_FallbackIsDropped ==
    (ret.op = "process" /\ ~text_model)
        => /\ GenerateTextEmbedding(text_model, ret.claim_text).dim
                = (DigestBytes * DigestRepeat) \div Float32Bytes
           /\ vectors = <<>> /\ claim_ids = <<>>
           /\ ret.found = <<>>

-----------------------------------------------------------------------------
(* Graph-disabled mode, checked under Spec *)

GraphDisabled == graph_mode \in {"none", "down"}

\* the record analyze_family returns for no mutations
ZeroStatistics ==
    [family_size |-> 0, time_span_days |-> 0, spread_rate |-> 0, viral_score |-> 0,
     mutation_types |-> Empty]

\* C12: with the graph not configured or not connected, a process call (its
\* metadata a dict) still searches and inserts its claim into the index, and
\* returns a record without `error` whose family is empty, patient zero none,
\* analysis the all-zero record and prediction the one of the empty family.
C12_GraphDisabledDegrades ==
    (ret.op = "process" /\ GraphDisabled /\ ret.claim_data # None)
        => /\ ret.result.similar_claims_count = Len(ret.found)
           /\ Len(claim_ids) > 0 /\ claim_ids[Len(claim_ids)] = ret.claim_id
           /\ ~HasError(ret.result)
           /\ ret.result.mutation_family = <<>>
           /\ ret.result.patient_zero = None
           /\ ret.result.analysis = ZeroStatistics
           /\ ret.result.spread_prediction = PredictSpread(<<>>)

\* With the embedding model loaded the degradation is as claimed.
C12_DegradesWithModel == text_model => C12_GraphDisabledDegrades

\* a call on a disconnected graph has returned, having found an earlier claim
C12_DegradesWithModelWitness ==
    /\ ret.op = "process" /\ graph_mode = "down" /\ ret.claim_data # None
    /\ text_model /\ ret.found # <<>>

-----------------------------------------------------------------------------
(* One MutationSearchEngine used by one caller: add_claim, search_similar and
   get_index_size, each call run to its end before the next. *)

\* get_index_size: len(self.claim_ids)
GetIndexSize(ids) == Len(ids)

\* The (id, vector) pairs inserted: A and B may come with equal vectors, B also
\* with a paraphrase of A's text, C with an unrelated text or with a vector
\* of 96 floats.
EngineInputs ==
    {<<"A", GenerateTextEmbedding(TRUE, "t1")>>, <<"B", GenerateTextEmbedding(TRUE, "t1")>>,
     <<"B", GenerateTextEmbedding(TRUE, "t2")>>, <<"C", GenerateTextEmbedding(TRUE, "t3")>>,
     <<"C", SimpleEmbedding("t1")>>}

\* the queries: two vectors of the index's length and one of 96 floats
EngineQueryInputs == QueryInputs \cup {SimpleEmbedding("t1")}

KInputs == {1, SearchK}
ThresholdInputs == {Frac(1, 2), SimilarityThreshold, Frac(1, 1)}

InitSearch ==
    /\ InitCommon
    /\ text_model = TRUE
    /\ graph_mode = "none"

engine_add_claim(claim_id, embedding) ==
    /\ calls < MaxCalls
    /\ calls' = calls + 1
    /\ IF IndexAccepts(embedding)
       THEN /\ vectors' = Append(vectors, embedding)
            /\ claim_ids' = Append(claim_ids, claim_id)
       ELSE UNCHANGED <<vectors, claim_ids>>
    /\ ret' = [op |-> "index.add_claim", claim_id |-> claim_id, embedding |-> embedding]
    /\ UNCHANGED <<text_model, graph_mode, nodes, edges, pc, job>>

engine_search_similar(query, k, threshold) ==
    /\ calls < MaxCalls
    /\ calls' = calls + 1
    /\ \E result \in SearchSimilar(vectors, claim_ids, query, k, threshold) :
          ret' = [op |-> "search_similar", query |-> query, k |-> k,
                  threshold |-> threshold, result |-> result]
    /\ UNCHANGED <<text_model, graph_mode, vectors, claim_ids, nodes, edges, pc, job>>

get_index_size ==
    /\ calls < MaxCalls
    /\ calls' = calls + 1
    /\ ret' = [op |-> "get_index_size", result |-> GetIndexSize(claim_ids)]
    /\ UNCHANGED <<text_model, graph_mode, vectors, claim_ids, nodes, edges, pc, job>>

NextSearch ==
    \/ \E input \in EngineInputs : engine_add_claim(input[1], input[2])
    \/ \E query \in EngineQueryInputs, k \in KInputs, threshold \in ThresholdInputs :
          engine_search_similar(query, k, threshold)
    \/ get_index_size

SpecSearch == InitSearch /\ [][NextSearch]_vars

-----------------------------------------------------------------------------
(* Properties of the engine used by one caller, checked under SpecSearch *)

\* r is an answer to (q, k, threshold) on the index (V, ids): there is a set
\* H of min(k, size) positions, none farther from q than a position outside
\* it, and r lists the positions of H whose similarity reaches the threshold,
\* each once, nearest first, each with the id stored at its position.
IsNearestAnswer(r, V, ids, q, k, threshold) ==
    \E H \in SUBSET (1..Len(V)) :
        /\ Cardinality(H) = Min(k, Len(ids))
        /\ \A i \in H, j \in (1..Len(V)) \ H : L2Distance(V[i], q) <= L2Distance(V[j], q)
        /\ \E f \in [1..Len(r) -> H] :
              /\ \A m, n \in 1..Len(r) : m < n =>
                    /\ f[m] # f[n]
                    /\ L2Distance(V[f[m]], q) <= L2Distance(V[f[n]], q)
              /\ {f[n] : n \in 1..Len(r)}
                    = {i \in H : FracGE(Similarity(L2Distance(V[i], q)), threshold)}
              /\ \A n \in 1..Len(r) :
                    r[n] = [claim_id |-> ids[f[n]],
                            similarity |-> Similarity(L2Distance(V[f[n]], q))]

C13_FilterWitness ==
    /\ ret.op = "search_similar" /\ ret.k > Len(claim_ids) /\ Len(claim_ids) = 2
    /\ Len(ret.result) = 1 /\ ret.result[1].claim_id = claim_ids[2]

\* s is a subsequence of t: the elements of s occur in t in the same order
RECURSIVE IsSubSeq(_, _)
IsSubSeq(s, t) ==
    IF s = <<>> THEN TRUE
    ELSE IF t = <<>> THEN FALSE
    ELSE IF Head(s) = Head(t) THEN IsSubSeq(Tail(s), Tail(t))
    ELSE IsSubSeq(s, Tail(t))

FracLess(a, b) == a.num * b.den < b.num * a.den

\* The answers of search_similar(q, k, t1) and search_similar(q, k, t2) on the
\* index as it is now; index.search is a function of the index and the query,
\* so both calls loop over the same hits.
AnswersAt(q, k, t1, t2) ==
    IF Len(claim_ids) = 0 \/ q.dim # Dimension THEN {<<(<<>>), (<<>>)>>}
    ELSE {<<Matches(vectors, claim_ids, q, hits, t1), Matches(vectors, claim_ids, q, hits, t2)>> :
            hits \in Nearest(vectors, q, 1..Len(vectors), Min(k, Len(claim_ids)))}

\* C14: in every index state, for every query, k and thresholds t1 < t2, the
\* pairs returned with threshold t2 are returned with threshold t1, in the
\* same relative order.
C14_ThresholdMonotone ==
    \A q \in EngineQueryInputs, k \in KInputs, t1 \in ThresholdInputs, t2 \in ThresholdInputs :
        FracLess(t1, t2)
            => \A pair \in AnswersAt(q, k, t1, t2) : IsSubSeq(pair[2], pair[1])

\* an index state where the higher threshold keeps one match and the lower
\* one keeps that match and another
C14_Witness ==
    \E q \in EngineQueryInputs, k \in KInputs, t1 \in ThresholdInputs, t2 \in ThresholdInputs :
        /\ FracLess(t1, t2)
        /\ \E pair \in AnswersAt(q, k, t1, t2) :
              Len(pair[2]) = 1 /\ Len(pair[1]) = 2 /\ pair[1][1] = pair[2][1]

\* The index holds as many ids as vectors, only vectors of its own length, and
\* at each position an id with a vector it was inserted with.
IndexAligned ==
    /\ Len(vectors) = Len(claim_ids)
    /\ GetIndexSize(claim_ids) = Len(vectors)
    /\ \A i \in 1..Len(vectors) :
          /\ vectors[i].dim = Dimension
          /\ <<claim_ids[i], vectors[i]>> \in EngineInputs

\* The effect of one add_claim(id, vector) call: none when the vector's length
\* differs from the index's, else id and vector are appended, each to its list.
AddClaimEffect ==
    (ret'.op = "index.add_claim" /\ calls' = calls + 1)
        => IF ret'.embedding.dim # Dimension
           THEN /\ vectors' = vectors /\ claim_ids' = claim_ids
                /\ GetIndexSize(claim_ids') = GetIndexSize(claim_ids)
           ELSE /\ vectors' = Append(vectors, ret'.embedding)
                /\ claim_ids' = Append(claim_ids, ret'.claim_id)
                /\ GetIndexSize(claim_ids') = GetIndexSize(claim_ids) + 1

\* C15: with add_claim calls made one after the other, a call whose vector
\* length differs from D changes neither the store, nor the id list, nor the
\* size; the size counts the accepted calls and the id list holds their ids in
\* insertion order, the id at position i with the i-th accepted vector.
C15_RejectsWrongLength == []IndexAligned /\ [][AddClaimEffect]_vars

\* a vector of 96 floats has been rejected by an index that holds two claims
C15_Witness ==
    /\ ret.op = "index.add_claim" /\ ret.embedding.dim # Dimension
    /\ Len(claim_ids) = 2 /\ Len(vectors) = 2

-----------------------------------------------------------------------------
(* MutationAnalyzer called on a family, and the agent calling it *)

FamilyShapes == {"same_day", "daily", "daily_latest_first"}
TimestampKinds == {"datetime", "iso"}
FamilyFaults == {"none", "missing", "not_a_date", "other_kind"}

\* the day of member i of a family of n
ShapeDay(shape, i, n) ==
    CASE shape = "same_day" -> 1
      [] shape = "daily" -> i
      [] OTHER -> n + 1 - i

KindTimestamp(kind, day) == IF kind = "datetime" THEN day ELSE IsoString(day)

\* Member i of a family of n: its timestamp is of the family's kind, except
\* that the member at position `at` has the fault.
FamilyMember(n, shape, kind, fault, at, i) ==
    IF i # at \/ fault = "none"
    THEN [id |-> i, timestamp |-> KindTimestamp(kind, ShapeDay(shape, i, n))]
    ELSE CASE fault = "missing" -> [id |-> i]
           [] fault = "not_a_date" -> [id |-> i, timestamp |-> BadTimestamp]
           [] OTHER -> [id |-> i, timestamp |->
                           KindTimestamp(IF kind = "datetime" THEN "iso" ELSE "datetime",
                                         ShapeDay(shape, i, n))]

\* The families handed to the analyzer: 0..MaxFamily members
Families ==
    {[i \in 1..n |-> FamilyMember(n, shape, kind, fault, at, i)] :
        n \in 0..MaxFamily, shape \in FamilyShapes, kind \in TimestampKinds,
        fault \in FamilyFaults, at \in {1, 2}}

InitAnalyzer ==
    /\ vectors = <<>>
    /\ claim_ids = <<>>
    /\ nodes = {}
    /\ edges = {}
    /\ ret = [op |-> "init"]
    /\ calls = 0
    /\ pc = Empty
    /\ text_model = TRUE
    /\ graph_mode = "up"
    /\ \E mutations \in Families : job = [mutations |-> mutations]

analyze_family ==
    /\ calls < MaxCalls
    /\ calls' = calls + 1
    /\ ret' = [op |-> "analyze_family", result |-> AnalyzeFamily(job.mutations)]
    /\ UNCHANGED <<text_model, graph_mode, vectors, claim_ids, nodes, edges, pc, job>>

predict_spread ==
    /\ calls < MaxCalls
    /\ calls' = calls + 1
    /\ ret' = [op |-> "predict_spread", result |-> PredictSpread(job.mutations)]
    /\ UNCHANGED <<text_model, graph_mode, vectors, claim_ids, nodes, edges, pc, job>>

AnalyzerClaimData == {[timestamp |-> 1], [timestamp |-> 2]}

\* The analyzer called on a family, or (no family at hand) by the agent.
NextAnalyzer ==
    \/ analyze_family
    \/ predict_spread
    \/ \E claim_id \in AgentIds, claim_data \in AnalyzerClaimData :
          job.mutations = <<>> /\ process(claim_id, "t1", claim_data)

SpecAnalyzer == InitAnalyzer /\ [][NextAnalyzer]_vars

\* C16: the viral_score analyze_family returns is within 0..100 for every
\* family (empty, one member, any size and timestamps, families on which the
\* analysis raises), and so is the viral_score of every process result
\* (scores in tenths).
C16_ViralScoreBounds ==
    /\ ret.op = "analyze_family"
        => /\ 0 <= ret.result.viral_score /\ ret.result.viral_score <= 10 * 100
           /\ job.mutations = <<>> => ret.result.viral_score = 0
    /\ ret.op = "process"
        => /\ 0 <= ret.result.viral_score /\ ret.result.viral_score <= 10 * 100
           /\ ret.result.viral_score = ret.result.analysis.viral_score

\* analyze_family has clamped a score to 100
C16_Witness ==
    /\ ret.op = "analyze_family" /\ ret.result.viral_score = 10 * 100
    /\ ret.result.family_size = 9 /\ ret.result.spread_rate = 9 * 100

\* analyze_family has returned from its except branch
C16_ErrorWitness ==
    /\ ret.op = "analyze_family" /\ AnalysisRaises(job.mutations)
    /\ ret.result.family_size > 1 /\ ret.result.viral_score = 0

\* process has returned the score of a family of two
C16_ProcessWitness ==
    /\ ret.op = "process" /\ Len(ret.result.mutation_family) > 1
    /\ ret.result.viral_score > 0

InsufficientData(result, n) ==
    /\ result.prediction = "insufficient_data"
    /\ result.current_count = n /\ result.predicted_count = n
    /\ result.confidence = "low"

\* C17: predict_spread on a family of fewer than 3 members returns
\* "insufficient_data", predicted_count = current_count = the size and
\* confidence "low"; on a family of 3 or more members the confidence is
\* "medium" exactly when the size exceeds 10.
C17_PredictionFloor ==
    ret.op = "predict_spread"
        => \E n \in {Len(job.mutations)} :
              /\ n < 3 => InsufficientData(ret.result, n)
              /\ n >= 3 => (ret.result.confidence = "medium" <=> n > 10)

\* What holds: the floor below 3 members, and the confidence rule on the
\* families whose timestamps sort (all strings, or none a string).
C17_FloorAndSortedConfidence ==
    ret.op = "predict_spread"
        => \E n \in {Len(job.mutations)} :
              /\ n < 3 => InsufficientData(ret.result, n)
              /\ (n >= 3 /\ ~SortRaises(job.mutations))
                    => /\ ret.result.prediction = "exponential_growth"
                       /\ ret.result.confidence = "medium" <=> n > 10
              /\ (n >= 3 /\ SortRaises(job.mutations))
                    => /\ ret.result.prediction = "error"
                       /\ ret.result.confidence = "low"

C17_FloorAndSortedConfidenceWitness ==
    /\ ret.op = "predict_spread" /\ Len(job.mutations) > 10
    /\ ret.result.confidence = "medium"

-----------------------------------------------------------------------------
(* One process call on an agent that has been in use: its index holds up to
   12 claims, 11 of them within the threshold of the text "t1", and its graph
   holds claim A with up to MaxLoaded claims linked to it, among them the
   claims of the index. *)

LoadedId(i) == ToString(i)

\* the points of the vectors in the index, in insertion order
LoadedPos == <<0, 1, 0 - 1, 2, 0 - 2, 3, 0 - 3, 4, 0 - 4, 0, 1, 10>>

LoadedVectors(n) == [i \in 1..n |-> [dim |-> Dimension, pos |-> LoadedPos[i]]]
LoadedIds(n) == [i \in 1..n |-> LoadedId(i)]

\* claim i was stamped on day i + 1, claim A on day 1
LoadedNodes(count) ==
    {[id |-> "A", text |-> "t1", timestamp |-> 1, platform |-> "web"]} \cup
    {[id |-> LoadedId(i), text |-> "t1", timestamp |-> i + 1, platform |-> "web"] :
        i \in 1..count}

LoadedEdges(count) == {EdgeOf(LoadedId(i), "A", Frac(9, 10)) : i \in 1..count}

InitLoaded ==
    /\ text_model = TRUE
    /\ graph_mode = "up"
    /\ \E n \in 0..Len(LoadedPos) :
          /\ vectors = LoadedVectors(n)
          /\ claim_ids = LoadedIds(n)
    /\ \E count \in {Len(LoadedPos), MaxLoaded} :
          /\ nodes = LoadedNodes(count)
          /\ edges = LoadedEdges(count)
    /\ ret = [op |-> "init"]
    /\ calls = 0
    /\ pc = Empty
    /\ job = Empty

LoadedTexts == {"t1", "t2"}
LoadedClaimData == {None, [platform |-> "web"], [timestamp |-> 2]}

NextLoaded ==
    \E claim_text \in LoadedTexts, claim_data \in LoadedClaimData :
        ret.op = "init" /\ process("A", claim_text, claim_data)

SpecLoaded == InitLoaded /\ [][NextLoaded]_vars

IsPrefixOfLength(s, t, n) ==
    /\ Len(s) = Min(Len(t), n)
    /\ \A i \in 1..Len(s) : s[i] = t[i]

NearestFirst(found) ==
    \A i, j \in 1..Len(found) :
        i < j => FracGE(found[i].similarity, found[j].similarity)

\* The limits of the record that process returned, against the matches its
\* search found and the family of the graph it left.
ResultLimitsHold ==
    /\ Len(ret.result.similar_claims) <= 10
    /\ NearestFirst(ret.found)
    /\ IsPrefixOfLength(ret.result.similar_claims, ret.found, 10)
    /\ Len(ret.result.mutation_family) <= 50
    /\ \E family \in FindMutationFamily(graph_mode, nodes, edges, ret.claim_id,
                                        FamilyDepth) :
          IsPrefixOfLength(ret.result.mutation_family, family, 50)
    /\ ret.result.similar_claims_count = Len(ret.found)
    /\ ret.result.similar_claims_count <= 20

\* C18 as stated, for every record that process returns: similar_claims has
\* at most 10 entries and is the nearest-first prefix of the matches found,
\* mutation_family has at most 50 entries and is the prefix of the computed
\* family, and similar_claims_count is the number of matches found (at most
\* k = 20).
C18_EveryResultLimits == ret.op = "process" => ResultLimitsHold

\* C18, amended: the limits hold in every record without an `error` field;
\* a record with an `error` field has no similar claims, a count of 0 and an
\* empty family, whatever the search found.
C18_ResultLimits ==
    ret.op = "process"
        => /\ ~HasError(ret.result) => ResultLimitsHold
           /\ HasError(ret.result)
                 => /\ ret.result.similar_claims = <<>>
                    /\ ret.result.similar_claims_count = 0
                    /\ ret.result.mutation_family = <<>>

\* process found 11 matches, listed 10 of them and 50 of the 52 family rows
C18_Witness ==
    /\ ret.op = "process" /\ ~HasError(ret.result)
    /\ Len(ret.found) = 11 /\ ret.result.similar_claims_count = 11
    /\ Len(ret.result.similar_claims) = 10
    /\ Len(ret.result.mutation_family) = 50
    /\ Cardinality(nodes) > 50

-----------------------------------------------------------------------------
(* C19: index_size of the returned record *)

\* C19: the index_size field of every record that process returns, records
\* with an `error` field included, is the number of vectors the index holds
\* when the call returns.
C19_IndexSizeIsCurrent ==
    ret.op = "process" => ret.result.index_size = Len(vectors)

\* What holds: index_size is the size of the index in every record without
\* an `error` field, and 0 in every record with one.
C19_IndexSizeUnlessError ==
    ret.op = "process"
        => ret.result.index_size
              = IF HasError(ret.result) THEN 0 ELSE Len(vectors)

\* a record without `error` returned after the call's own insert
C19_IndexSizeUnlessErrorWitness ==
    /\ ret.op = "process" /\ ~HasError(ret.result)
    /\ ret.result.index_size = 2 /\ Len(vectors) = 2

\* a record with `error` returned after the claim was inserted
C19_ErrorAfterInsertWitness ==
    /\ ret.op = "process" /\ HasError(ret.result)
    /\ "index.add_claim" \notin ret.failed
    /\ Len(vectors) > 0 /\ ret.result.index_size = 0

-----------------------------------------------------------------------------
(* C20: a seed that is not a claim of the graph *)

IsFind(op) == op \in {"find_mutation_family", "find_patient_zero"}

\* C20: for a seed id that is not a claim in the graph, find_mutation_family
\* returns the empty list and find_patient_zero returns none, and neither
\* changes the graph (both return a value in every case: a failing query is
\* caught and gives the same empty list / none).
C20_MissingSeed ==
    [][(IsFind(ret'.op) /\ ret'.claim_id \notin NodeIds(nodes))
          => /\ ret'.op = "find_mutation_family" => ret'.result = <<>>
             /\ ret'.op = "find_patient_zero" => ret'.result = None
             /\ nodes' = nodes
             /\ edges' = edges]_vars

\* find_mutation_family returned for a seed that is not in a graph that holds
\* other claims and a relationship
C20_Witness ==
    /\ ret.op = "find_mutation_family" /\ ret.result = <<>>
    /\ graph_mode = "up"
    /\ ret.claim_id \notin NodeIds(nodes)
    /\ nodes # {} /\ edges # {}

\* the same for find_patient_zero
C20_PatientZeroWitness ==
    /\ ret.op = "find_patient_zero" /\ ret.result = None
    /\ graph_mode = "up"
    /\ ret.claim_id \notin NodeIds(nodes)
    /\ nodes # {} /\ edges # {}

-----------------------------------------------------------------------------
(* Two concurrent process calls on one shared agent: thread 1 processes claim
   A and thread 2 claim B, statement by statement; neither the agent nor its
   search engine holds a lock.  The agent may already hold claim C. *)

Callers == {1, 2}
CallerClaim(t) == IF t = 1 THEN "A" ELSE "B"

ConcurrentTexts == {"t1", "t2"}
ConcurrentClaimData == {[timestamp |-> 1], [timestamp |-> 2]}

InitConcurrent ==
    /\ text_model = TRUE
    /\ graph_mode = "up"
    /\ \E loaded \in BOOLEAN :
          /\ vectors = IF loaded THEN <<GenerateTextEmbedding(TRUE, "t2")>> ELSE <<>>
          /\ claim_ids = IF loaded THEN <<"C">> ELSE <<>>
          /\ nodes = IF loaded
                     THEN {NodeOf("C", [text |-> "t2", timestamp |-> 1, platform |-> "web"])}
                     ELSE {}
    /\ edges = {}
    /\ ret = [op |-> "init"]
    /\ calls = 0
    /\ pc = [t \in Callers |-> "idle"]
    /\ job = [t \in Callers |-> None]

\* process is called: the embedding, then search_similar up to its test
\* `if len(self.claim_ids) == 0: return []`
process_begin(t, claim_text, claim_data) ==
    /\ pc[t] = "idle"
    /\ calls' = calls + 1
    /\ \E embedding \in {GenerateTextEmbedding(text_model, claim_text)} :
          /\ job' = [job EXCEPT ![t] =
                        [claim_id |-> CallerClaim(t), claim_text |-> claim_text,
                         claim_data |-> claim_data, embedding |-> embedding,
                         hits |-> <<>>, ids_len |-> Len(claim_ids), found |-> <<>>]]
          /\ pc' = [pc EXCEPT ![t] =
                       IF Len(claim_ids) = 0 \/ embedding.dim # Dimension
                       THEN "process.index.add" ELSE "process.index.search"]
    /\ UNCHANGED <<text_model, graph_mode, vectors, claim_ids, nodes, edges, ret>>

\* k_actual = min(k, len(self.claim_ids)); self.index.search(query, k_actual)
process_index_search(t) ==
    /\ pc[t] = "process.index.search"
    /\ \E hits \in Nearest(vectors, job[t].embedding, 1..Len(vectors),
                          Min(SearchK, Len(claim_ids))) :
          job' = [job EXCEPT ![t].hits = hits, ![t].ids_len = Len(claim_ids)]
    /\ pc' = [pc EXCEPT ![t] = "process.results"]
    /\ UNCHANGED <<text_model, graph_mode, vectors, claim_ids, nodes, edges, ret, calls>>

\* the loop that builds results; search_similar returns
process_results(t) ==
    /\ pc[t] = "process.results"
    /\ job' = [job EXCEPT ![t].found =
                  Matches(vectors, claim_ids, job[t].embedding, job[t].hits,
                          SimilarityThreshold)]
    /\ pc' = [pc EXCEPT ![t] = "process.index.add"]
    /\ UNCHANGED <<text_model, graph_mode, vectors, claim_ids, nodes, edges, ret, calls>>

\* search_engine.add_claim: self.index.add(...)
process_index_add(t) ==
    /\ pc[t] = "process.index.add"
    /\ IF IndexAccepts(job[t].embedding)
       THEN /\ vectors' = Append(vectors, job[t].embedding)
            /\ pc' = [pc EXCEPT ![t] = "process.claim_ids.append"]
       ELSE /\ UNCHANGED vectors
            /\ pc' = [pc EXCEPT ![t] = "process.graph.add_claim"]
    /\ UNCHANGED <<text_model, graph_mode, claim_ids, nodes, edges, ret, calls, job>>

\* search_engine.add_claim: self.claim_ids.append(claim_id)
process_claim_ids_append(t) ==
    /\ pc[t] = "process.claim_ids.append"
    /\ claim_ids' = Append(claim_ids, job[t].claim_id)
    /\ pc' = [pc EXCEPT ![t] = "process.graph.add_claim"]
    /\ UNCHANGED <<text_model, graph_mode, vectors, nodes, edges, ret, calls, job>>

\* self.graph.add_claim(claim_id, {...})
process_graph_add_claim(t) ==
    /\ pc[t] = "process.graph.add_claim"
    /\ nodes' = GraphAddClaim(graph_mode, nodes, job[t].claim_id,
                              GraphClaimData(job[t].claim_text, job[t].claim_data))
    /\ pc' = [pc EXCEPT ![t] = "process.edges"]
    /\ UNCHANGED <<text_model, graph_mode, vectors, claim_ids, edges, ret, calls, job>>

\* for similar_id, similarity in similar_claims: self.graph.add_mutation_edge(...)
process_edges(t) ==
    /\ pc[t] = "process.edges"
    /\ edges' = AddMutationEdges(graph_mode, nodes, edges, job[t].found, job[t].claim_id)
    /\ pc' = [pc EXCEPT ![t] = "process.return"]
    /\ UNCHANGED <<text_model, graph_mode, vectors, claim_ids, nodes, ret, calls, job>>

\* the family, patient zero, the analysis and the returned record
process_return(t) ==
    /\ pc[t] = "process.return"
    /\ \E family \in FindMutationFamily(graph_mode, nodes, edges, job[t].claim_id,
                                        FamilyDepth),
          zero \in FindPatientZero(graph_mode, nodes, edges, job[t].claim_id) :
          ret' = ProcessRet(job[t].claim_id, job[t].claim_text, job[t].claim_data,
                            job[t].found, {},
                            Result(job[t].claim_id, job[t].found, family, zero,
                                   GetIndexSize(claim_ids)))
    /\ pc' = [pc EXCEPT ![t] = "done"]
    /\ UNCHANGED <<text_model, graph_mode, vectors, claim_ids, nodes, edges, calls, job>>

NextConcurrent ==
    \/ \E t \in Callers, claim_text \in ConcurrentTexts, claim_data \in ConcurrentClaimData :
          process_begin(t, claim_text, claim_data)
    \/ \E t \in Callers : process_index_search(t)
    \/ \E t \in Callers : process_results(t)
    \/ \E t \in Callers : process_index_add(t)
    \/ \E t \in Callers : process_claim_ids_append(t)
    \/ \E t \in Callers : process_graph_add_claim(t)
    \/ \E t \in Callers : process_edges(t)
    \/ \E t \in Callers : process_return(t)

SpecConcurrent == InitConcurrent /\ [][NextConcurrent]_vars

\* the search of thread t has returned
Searched(t) ==
    pc[t] \in {"process.index.add", "process.claim_ids.append", "process.graph.add_claim",
               "process.edges", "process.return", "done"}

\* the ids whose insert had completed when thread t's index.search ran
\* (claim_ids only grows, at its end)
CompletedBeforeSearch(t) == {claim_ids[i] : i \in 1..job[t].ids_len}

HasEdge(from_id, to_id) == EdgesBetween(edges, from_id, to_id) # {}

\* C21: under every interleaving of the two calls, each call's similar-claims
\* list contains only ids whose index insert completed before that call's
\* search executed, and at most one mutation edge is created between A and B.
C21_SeesOnlyEarlierInserts ==
    /\ \A t \in Callers :
          Searched(t) => \A i \in 1..Len(job[t].found) :
                            job[t].found[i].claim_id \in CompletedBeforeSearch(t)
    /\ ~(HasEdge("A", "B") /\ HasEdge("B", "A"))

\* What holds: never both edges, and no call lists its own claim.
C21_AtMostOneEdge ==
    /\ ~(HasEdge("A", "B") /\ HasEdge("B", "A"))
    /\ \A t \in Callers :
          Searched(t) => \A i \in 1..Len(job[t].found) :
                            job[t].found[i].claim_id # job[t].claim_id

\* both calls have returned and one edge joins A and B
C21_EdgeWitness ==
    /\ \A t \in Callers : pc[t] = "done"
    /\ HasEdge("A", "B") \/ HasEdge("B", "A")

\* both calls have returned, both claims are indexed, and no edge joins them
C21_NoEdgeWitness ==
    /\ \A t \in Callers : pc[t] = "done"
    /\ claim_ids \in {<<"A", "B">>, <<"B", "A">>, <<"C", "A", "B">>, <<"C", "B", "A">>}
    /\ ~HasEdge("A", "B") /\ ~HasEdge("B", "A")

-----------------------------------------------------------------------------
(* find_mutation_family with the max_depth the caller passes *)

\* max_depth arguments: below, at and above the default
DepthInputs == {1, 2, FamilyDepth, FamilyDepth + 1}

find_mutation_family_to(claim_id, max_depth) ==
    /\ \E family \in FindMutationFamily(graph_mode, nodes, edges, claim_id, max_depth) :
          ret' = [op |-> "find_mutation_family", claim_id |-> claim_id,
                  max_depth |-> max_depth, result |-> family]
    /\ UNCHANGED <<text_model, graph_mode, vectors, claim_ids, nodes, edges, calls, pc, job>>

NextDepth ==
    \/ \E claim_id \in Ids, data \in ClaimDataInputs : add_claim(claim_id, data)
    \/ \E e \in EdgeInputs, similarity \in SimilarityInputs :
          add_mutation_edge(e[1], e[2], similarity)
    \/ \E claim_id \in Ids, max_depth \in DepthInputs :
          find_mutation_family_to(claim_id, max_depth)

SpecDepth == InitGraph /\ [][NextDepth]_vars

\* the number of hops from seed to id, edges taken in either direction
HopDistance(E, seed, id) ==
    CHOOSE k \in 0..Cardinality(E) :
        /\ id \in WithinHops(E, {seed}, k)
        /\ \A j \in 0..(k - 1) : id \notin WithinHops(E, {seed}, j)

OrderedByDistanceThenTimestamp(s) ==
    \A i, j \in 1..Len(s) : i < j => ~FamilyBefore(s[j], s[i])

\* C22: find_mutation_family(seed, max_depth) returns no member more than
\* max_depth hops from the seed, at most 100 entries, each with the member's
\* hop distance from the seed, ordered by distance, then timestamp.
C22_HonoursCaps ==
    ret.op = "find_mutation_family"
        => /\ SeqIds(ret.result) \subseteq WithinHops(edges, {ret.claim_id}, ret.max_depth)
           /\ Len(ret.result) <= 100
           /\ \A i \in 1..Len(ret.result) :
                 ret.result[i].distance
                    = HopDistance(edges, ret.claim_id, ret.result[i].id)
           /\ OrderedByDistanceThenTimestamp(ret.result)

\* What holds: the caps of the query text (5 hops, 100 rows) and the order;
\* a distance is the length of a path, at least the hop distance.
C22_QueryCaps ==
    ret.op = "find_mutation_family"
        => /\ SeqIds(ret.result) \subseteq WithinHops(edges, {ret.claim_id}, FamilyDepth)
           /\ Len(ret.result) <= FamilyLimit
           /\ \A i \in 1..Len(ret.result) :
                 /\ ret.result[i].distance <= FamilyDepth
                 /\ ret.result[i].distance
                       >= HopDistance(edges, ret.claim_id, ret.result[i].id)
           /\ OrderedByDistanceThenTimestamp(ret.result)

\* a family returned for max_depth 1 holds a claim two hops from the seed
C22_BeyondDepthWitness ==
    /\ ret.op = "find_mutation_family" /\ ret.max_depth = 1 /\ ret.claim_id = "A"
    /\ {<<e.from_id, e.to_id>> : e \in edges} = {<<"A", "B">>, <<"B", "C">>}
    /\ \E i \in 1..Len(ret.result) : ret.result[i].id = "C" /\ ret.result[i].distance = 2

-----------------------------------------------------------------------------
(* C23: the processed claim in its own family, checked under Spec *)

SeedAtDistanceZero(family, claim_id) ==
    \E i \in 1..Len(family) : family[i].id = claim_id /\ family[i].distance = 0

\* C23: with the graph backend available, the mutation_family of the result
\* of process(claim_id, text, claim_data) contains claim_id at distance 0,
\* for every claim_data, a dict without a timestamp included.
C23_FamilyHoldsClaim ==
    (ret.op = "process" /\ graph_mode = "up" /\ ret.claim_data # None)
        => SeedAtDistanceZero(ret.result.mutation_family, ret.claim_id)

\* What holds: the claim is in its family when its node is in the graph, that
\* is when this call or an earlier one carried a timestamp that parses.
C23_FamilyHoldsStoredClaim ==
    (ret.op = "process" /\ graph_mode = "up" /\ ret.claim_data # None)
        => (SeedAtDistanceZero(ret.result.mutation_family, ret.claim_id)
               <=> ret.claim_id \in NodeIds(nodes))

\* a result for a claim with a timestamp, holding the claim and a relative
C23_StoredWitness ==
    /\ ret.op = "process" /\ graph_mode = "up"
    /\ "timestamp" \in DOMAIN ret.claim_data
    /\ SeedAtDistanceZero(ret.result.mutation_family, ret.claim_id)
    /\ Len(ret.result.mutation_family) >= 2

\* a result for a claim without a timestamp: the family is empty
C23_NoTimestampWitness ==
    /\ ret.op = "process" /\ graph_mode = "up" /\ ret.claim_data # None
    /\ "timestamp" \notin DOMAIN ret.claim_data
    /\ ret.result.mutation_family = <<>>
    /\ "graph.add_claim" \in ret.failed

-----------------------------------------------------------------------------
(* The pipeline: one agent with its graph up processes claims one after the
   other, among them claims whose metadata carries no timestamp; an id may
   come more than once. *)

PipelineTexts == {"t1", "t2"}
PipelineClaimData == {[platform |-> "web"], [timestamp |-> 1]}

InitPipeline ==
    /\ InitCommon
    /\ text_model = TRUE
    /\ graph_mode = "up"

NextPipeline ==
    \E claim_id \in Ids, claim_text \in PipelineTexts, claim_data \in PipelineClaimData :
        process(claim_id, claim_text, claim_data)

SpecPipeline == InitPipeline /\ [][NextPipeline]_vars

\* there is an edge from_id -> to_id carrying similarity
EdgeCarries(E, from_id, to_id, similarity) ==
    \E e \in E : e.from_id = from_id /\ e.to_id = to_id /\ e.similarity = similarity

\* the edges of E that are not in D, or are in D with another similarity
Upserted(D, E) == E \ D

\* the claim ids of s are pairwise distinct
DistinctIds(s) == \A i, j \in 1..Len(s) : s[i] = s[j] => i = j

\* C24: after process(X) with the graph available, every pair (id, similarity)
\* that the search returned for X has an edge id -> X carrying that
\* similarity, and the call creates no edge leaving X.
C24_EdgeForEveryMatch ==
    /\ [](ret.op = "process"
            => \A i \in 1..Len(ret.found) :
                  EdgeCarries(edges, ret.found[i].claim_id, ret.claim_id,
                              ret.found[i].similarity))
    /\ [][ret'.op = "process"
            => \A e \in Upserted(edges, edges') : e.from_id # ret'.claim_id]_vars

\* What holds: every returned pair whose id is a claim of the graph has its
\* edge to X once X is a claim of the graph (with that similarity when the
\* id was returned once), whatever happened to the other pairs; an edge
\* leaving X is created only when X was returned as its own relative.
C24_EdgeForEveryKnownMatch ==
    /\ [](ret.op = "process"
            => \A i \in 1..Len(ret.found) :
                  ({ret.found[i].claim_id, ret.claim_id} \subseteq NodeIds(nodes))
                     => /\ EdgesBetween(edges, ret.found[i].claim_id, ret.claim_id) # {}
                        /\ (\A j \in 1..Len(ret.found) :
                               ret.found[j].claim_id = ret.found[i].claim_id => j = i)
                              => EdgeCarries(edges, ret.found[i].claim_id, ret.claim_id,
                                             ret.found[i].similarity))
    /\ [][ret'.op = "process"
            => \A e \in Upserted(edges, edges') :
                  /\ e.to_id = ret'.claim_id
                  /\ e.from_id = ret'.claim_id
                        => \E i \in 1..Len(ret'.found) :
                              ret'.found[i].claim_id = ret'.claim_id]_vars

\* the search returned a claim that the graph does not hold and one that it
\* holds: the first edge was rejected, the second one exists
C24_RejectedThenUpsertedWitness ==
    /\ ret.op = "process" /\ Len(ret.found) = 2 /\ DistinctIds(claim_ids)
    /\ ret.found[1].claim_id \notin NodeIds(nodes)
    /\ EdgeCarries(edges, ret.found[2].claim_id, ret.claim_id, ret.found[2].similarity)
    /\ Cardinality(edges) = 1

-----------------------------------------------------------------------------
(* C25: ties for patient zero, checked under SpecGraph *)

\* C25: find_patient_zero returns the same claim on every call made on the
\* same graph state, also when several reachable claims share the least
\* timestamp (a returning find does not change the graph, so two calls in a
\* row for one seed run on the same state).
C25_SameZeroOnEveryCall ==
    [][(ret.op = "find_patient_zero" /\ ret'.op = "find_patient_zero"
          /\ ret'.claim_id = ret.claim_id)
          => ret'.result = ret.result]_vars

\* What holds: every call returns one of the claims of least timestamp.
C25_SomeEarliestClaim ==
    (ret.op = "find_patient_zero" /\ ret.result # None)
        => ret.result \in EarliestRows(PatientZeroRows(nodes, edges, ret.claim_id))

\* a call returned one of two linked claims that share the least timestamp
C25_TieWitness ==
    /\ ret.op = "find_patient_zero" /\ ret.result # None
    /\ \E r \in EarliestRows(PatientZeroRows(nodes, edges, ret.claim_id)) :
          r.id # ret.result.id

-----------------------------------------------------------------------------
(* C26, C27: the statistics of analyze_family, checked under SpecAnalyzer *)

ValidTimestamp(m) == IsDatetime(m) \/ ParsesAsIso(m)
Members(mutations) == {mutations[i] : i \in 1..Len(mutations)}
AllOneKind(mutations) ==
    \/ \A m \in Members(mutations) : ValidTimestamp(m) => IsDatetime(m)
    \/ \A m \in Members(mutations) : ValidTimestamp(m) => IsString(m)

\* whole days between the earliest and the latest valid timestamp
ValidSpanDays(mutations) ==
    LET days == {DayOf(m) : m \in {x \in Members(mutations) : ValidTimestamp(x)}}
    IN  IF Cardinality(days) < 2 THEN 0 ELSE SetMax(days) - SetMin(days)

\* the statistics the formulae give for a family of n members over span days
\* (spread_rate in hundredths, viral_score in tenths)
StatisticsFor(n, span) ==
    [family_size |-> n,
     time_span_days |-> span,
     spread_rate |-> RoundDiv(100 * n, Max(span, 1)),
     viral_score |-> Min(10 * 100, RoundDiv(100 * n, Max(span, 1)) + 20 * n)]

\* a family whose timestamps are valid and of one kind, except for members
\* whose timestamp is missing or no date
FaultyFamily(mutations) ==
    /\ \E m \in Members(mutations) : ~ValidTimestamp(m)
    /\ \E m \in Members(mutations) : ValidTimestamp(m)
    /\ AllOneKind(mutations)

\* C26: analyze_family on a family in which a member's timestamp is missing
\* or unparseable still analyses the family: the member is left out of the
\* time span, and family_size, spread_rate and viral_score come from the
\* formulae rather than being zeroed.
C26_FaultyMemberSkipped ==
    (ret.op = "analyze_family" /\ FaultyFamily(job.mutations))
        => [k \in DOMAIN ret.result \ {"mutation_types"} |-> ret.result[k]]
              = StatisticsFor(Len(job.mutations), ValidSpanDays(job.mutations))

\* What holds: the call returns a record, which carries the family's size and
\* zeroed statistics.
C26_FaultyMemberZeroes ==
    (ret.op = "analyze_family" /\ FaultyFamily(job.mutations))
        => ret.result = [family_size |-> Len(job.mutations), time_span_days |-> 0,
                         spread_rate |-> 0, viral_score |-> 0, mutation_types |-> Empty]

\* a family of five, one per day, the second member without a timestamp
C26_MissingTimestampWitness ==
    /\ ret.op = "analyze_family" /\ FaultyFamily(job.mutations)
    /\ Len(job.mutations) = 5 /\ ~HasTimestamp(job.mutations[2])
    /\ ValidSpanDays(job.mutations) = 4
    /\ ret.result.viral_score = 0

\* ---------------------------------------------------------------------
\* The formulae of the analysis

\* a non-empty family whose timestamps are all valid and of one kind
WellFormedFamily(mutations) ==
    /\ Len(mutations) > 0
    /\ \A m \in Members(mutations) : ValidTimestamp(m)
    /\ AllOneKind(mutations)

Abs(x) == IF x < 0 THEN -x ELSE x

\* value is n / d rounded to the nearest unit
NearestTo(value, n, d) == 2 * Abs(value * d - n) <= d

C27_HalfwayWitness ==
    /\ ret.op = "analyze_family"
    /\ WellFormedFamily(job.mutations)
    /\ Len(job.mutations) = 9
    /\ ret.result.time_span_days = 8
    /\ ret.result.spread_rate = 112
    /\ ret.result.viral_score = 292

\* ---------------------------------------------------------------------
\* Claims submitted from several platforms

PlatformTexts == {"t1", "t2"}
PlatformClaimData ==
    {[timestamp |-> 1, platform |-> "web"], [timestamp |-> 2, platform |-> "app"],
     [timestamp |-> 2]}

NextPlatforms ==
    \E claim_id \in Ids, claim_text \in PlatformTexts, claim_data \in PlatformClaimData :
        process(claim_id, claim_text, claim_data)

SpecPlatforms == InitPipeline /\ [][NextPlatforms]_vars

\* the platform a claim was last submitted with ('unknown' when it gave none)
SubmittedPlatform(claim_id) ==
    CHOOSE platform \in {n.platform : n \in NodesWithId(nodes, claim_id)} : TRUE

\* the consecutive pairs of the walk whose submitted platforms differ, the
\* earlier one known
CrossingPairs(walked) ==
    {i \in 2..Len(walked) :
        /\ SubmittedPlatform(walked[i - 1].id) # SubmittedPlatform(walked[i].id)
        /\ SubmittedPlatform(walked[i - 1].id) # "unknown"}

\* C28: in the analysis of every process result, mutation_types tallies, over
\* the family walked in timestamp order, one platform_crossover for each
\* consecutive pair whose submitted platforms differ while the earlier one is
\* known and one paraphrase for every other pair; translation and other stay
\* 0 and the tallies sum to family size minus 1.
C28_TalliesSubmittedPlatforms ==
    (ret.op = "process" /\ ~HasError(ret.result) /\ ret.result.mutation_family # <<>>)
        => ret.result.analysis.mutation_types =
              [paraphrase |-> Len(ret.result.mutation_family) - 1
                                - Cardinality(CrossingPairs(
                                      SortedByTimestamp(ret.result.mutation_family))),
               translation |-> 0,
               platform_crossover |->
                   Cardinality(CrossingPairs(
                       SortedByTimestamp(ret.result.mutation_family))),
               other |-> 0]

\* What holds: the rows of the family carry no platform, so every pair is
\* tallied as a paraphrase; an empty family has no tallies at all.
C28_TalliesParaphrasesOnly ==
    (ret.op = "process" /\ ~HasError(ret.result))
        => ret.result.analysis.mutation_types =
              IF ret.result.mutation_family = <<>> THEN Empty
              ELSE [paraphrase |-> Len(ret.result.mutation_family) - 1, translation |-> 0,
                    platform_crossover |-> 0, other |-> 0]

\* a claim of one platform followed, a day later, by a matching claim of
\* another platform: no crossover is tallied
C28_CrossoverWitness ==
    /\ ret.op = "process" /\ ~HasError(ret.result)
    /\ Len(ret.result.mutation_family) = 2
    /\ CrossingPairs(SortedByTimestamp(ret.result.mutation_family)) = {2}
    /\ ret.result.analysis.mutation_types.platform_crossover = 0
    /\ ret.result.analysis.mutation_types.paraphrase = 1

\* ---------------------------------------------------------------------
\* run_cmte_agent: one agent per call

StandaloneTexts == {"t1", "t2"}
StandaloneClaimData == {None, [timestamp |-> 1]}

\* the graphs earlier runs can have left in Neo4j; the index of no agent yet
StoredGraphs ==
    {[nodes |-> {}, edges |-> {}],
     [nodes |-> {NodeOf("A", [text |-> "t1", timestamp |-> 1, platform |-> "web"]),
                 NodeOf("B", [text |-> "t1", timestamp |-> 2, platform |-> "web"])},
      edges |-> {[from_id |-> "A", to_id |-> "B", similarity |-> Frac(1, 1)]}]}

InitStandalone ==
    /\ vectors = <<>>
    /\ claim_ids = <<>>
    /\ \E graph \in StoredGraphs : nodes = graph.nodes /\ edges = graph.edges
    /\ ret = [op |-> "init"]
    /\ calls = 0
    /\ pc = Empty
    /\ job = Empty
    /\ text_model \in BOOLEAN
    /\ graph_mode \in {"none", "down", "up"}

\* what MutationGraph.__init__ of a new agent can come to: no graph when
\* Neo4j is not configured, else connected or not
GraphModesOfNewAgent(mode) == IF mode = "none" THEN {"none"} ELSE {"down", "up"}

\* the call made on the agent of the previous call
run_on_kept_agent(claim_id, claim_text, claim_data) ==
    \E loaded \in BOOLEAN, mode \in GraphModesOfNewAgent(graph_mode) :
        /\ text_model' = loaded
        /\ graph_mode' = mode
        /\ ProcessOn(loaded, mode, vectors, claim_ids, claim_id, claim_text, claim_data)
        /\ UNCHANGED <<pc, job>>

\* agent = CMTEAgent(); return agent.process(claim_id, claim_text, claim_data):
\* vectors and claim_ids are the index of the agent built last
run_cmte_agent(claim_id, claim_text, claim_data) ==
    \E loaded \in BOOLEAN, mode \in GraphModesOfNewAgent(graph_mode) :
        /\ text_model' = loaded
        /\ graph_mode' = mode
        /\ ProcessOn(loaded, mode, <<>>, <<>>, claim_id, claim_text, claim_data)
        /\ UNCHANGED <<pc, job>>

NextStandalone ==
    \E claim_id \in AgentIds, claim_text \in StandaloneTexts,
       claim_data \in StandaloneClaimData :
        run_cmte_agent(claim_id, claim_text, claim_data)

SpecStandalone == InitStandalone /\ [][NextStandalone]_vars

FreshIndexResult ==
    ret.op = "process"
        => /\ ret.found = <<>>
           /\ ret.result.similar_claims_count = 0
           /\ ret.result.similar_claims = <<>>
           /\ ret.result.index_size <= 1
           /\ Len(vectors) <= 1

\* C29: run_cmte_agent builds a new agent and a new empty index on every
\* call: in any sequence of calls, however similar the texts, every result
\* has similar_claims_count 0 and index_size at most 1, and no call creates
\* a mutation edge.
C29_FreshIndexEachCall == []FreshIndexResult /\ [][edges' = edges]_vars

\* three calls, two of them with the same text and different ids, the graph
\* connected: both claims are stored, none was matched, no edge joins them
C29_Witness ==
    /\ calls = 3
    /\ ret.op = "process" /\ ~HasError(ret.result)
    /\ \A id \in AgentIds : \E n \in NodesWithId(nodes, id) : n.text = ret.claim_text
    /\ ret.result.similar_claims_count = 0
    /\ ret.result.index_size = 1
    /\ edges = {}

\* ---------------------------------------------------------------------
\* The direction of the edges

\* the place of a claim id in the index
PositionOf(ids, claim_id) == CHOOSE i \in 1..Len(ids) : ids[i] = claim_id

Successors(E, S) == {e.to_id : e \in {x \in E : x.from_id \in S}}

\* the claims reached from S along at most k edges, each from its source to
\* its target
RECURSIVE Descendants(_, _, _)
Descendants(E, S, k) ==
    IF k = 0 THEN S ELSE Descendants(E, S \cup Successors(E, S), k - 1)

HasSelfLoop(E) == \E e \in E : e.from_id = e.to_id
HasCycle(E) == \E e \in E : e.from_id \in Descendants(E, {e.to_id}, Cardinality(Ids))

\* C30: on one agent processing claims one after the other with pairwise
\* distinct claim ids, every mutation edge goes from a claim inserted into the
\* index earlier to one inserted later; hence the graph has no self-loop and
\* no directed cycle, and a self-loop or cycle arises only when a claim id was
\* processed more than once.
C30_EdgesPointForward ==
    /\ DistinctIds(claim_ids)
          => /\ \A e \in edges :
                    /\ \E i \in 1..Len(claim_ids) : claim_ids[i] = e.from_id
                    /\ \E i \in 1..Len(claim_ids) : claim_ids[i] = e.to_id
                    /\ PositionOf(claim_ids, e.from_id) < PositionOf(claim_ids, e.to_id)
             /\ ~HasSelfLoop(edges)
             /\ ~HasCycle(edges)
    /\ (HasSelfLoop(edges) \/ HasCycle(edges)) => ~DistinctIds(claim_ids)

\* three matching claims with distinct ids: the three edges point forward
C30_Witness ==
    /\ DistinctIds(claim_ids) /\ Len(claim_ids) = 3
    /\ Cardinality(edges) = 3
    /\ \A e \in edges :
          PositionOf(claim_ids, e.from_id) < PositionOf(claim_ids, e.to_id)

\* a claim id processed a second time after a relative: a self-loop, and a
\* cycle of two edges
C30_RepeatedIdWitness ==
    /\ ~DistinctIds(claim_ids)
    /\ HasSelfLoop(edges)
    /\ \E e \in edges : e.from_id # e.to_id /\ EdgesBetween(edges, e.to_id, e.from_id) # {}

\* ---------------------------------------------------------------------
\* One agent, claims processed one after the other, each id with the day of
\* its claim (checked under SpecSequential)

DayOfClaim(claim_id) == CHOOSE d \in 1..Cardinality(Ids) : <<"A", "B", "C">>[d] = claim_id

\* metadata with the claim's day, or without a timestamp
SequentialClaimData(claim_id) == {[timestamp |-> DayOfClaim(claim_id)], [platform |-> "web"]}

NextSequential ==
    \E claim_id \in Ids, claim_text \in PipelineTexts :
        \E claim_data \in SequentialClaimData(claim_id) :
            process(claim_id, claim_text, claim_data)

SpecSequential == InitPipeline /\ [][NextSequential]_vars

====
